---- MODULE Spec2Model ----
(***************************************************************************)
(* Easy-Scan: the client of the invoice scanner (Redux store, upload page, *)
(* invoice detail page) and the field extraction engine it talks to.       *)
(*                                                                         *)
(* Values.  A nullable value is a sequence of length at most one: NULL is  *)
(* the empty sequence (JavaScript null/undefined), Some(x) holds x.        *)
(* Amounts are exact integers (cents).  Free text (vendor, address, ...)   *)
(* is a sequence of one-character strings, so that trimming and pattern    *)
(* matching are computed on the characters.                                *)
(***************************************************************************)
EXTENDS Integers, Sequences, FiniteSets, TLC

VARIABLES
    ocr,         \* state.ocr of the store (ocrSlice)
    invoices,    \* state.invoices of the store (invoiceSlice)
    upload,      \* local state of UploadInvoicePage
    detail,      \* local state of the invoice detail page
    net,         \* requests sent to the backend and not yet answered
    db,          \* invoice records held by the backend
    route,       \* the page the browser shows
    clicks,      \* user actions so far
    engine,      \* the extraction engine's pipeline
    lastAction,  \* the handler that ran last and the requests it issued
    auth,        \* state.auth of the store (authSlice)
    storage,     \* localStorage: access_token and refresh_token
    guard,       \* local state of the page's ProtectedRoute
    accounts,    \* user accounts held by the backend
    faults       \* requests of the session that failed without an answer

authVars == <<auth, storage, guard, accounts, faults>>

vars == <<ocr, invoices, upload, detail, net, db, route, clicks, engine, lastAction,
          auth, storage, guard, accounts, faults>>

----------------------------------------------------------------------------
(* Bounds *)

MaxInvoices == 1      \* records the backend holds at most
MaxInFlight == 2      \* requests awaiting an answer at most
MaxSessionRequests == 3   \* the same, once the guard's and the pages' effects are counted
MaxLineItems == 2     \* rows of the detail page's line item table at most
MaxHeaderLines == 4   \* lines of a document's header block at most
MaxUserActions == 3   \* user actions (navigation, input, click) in one run at most
MaxSessionActions == 2   \* of them in a run that signs up, logs in, logs out and opens URLs
MaxFaults == 1        \* session requests lost on the network in one run at most
MaxNavigations == 6   \* pages opened or redirected to in one run at most

----------------------------------------------------------------------------
(* Nullable values and JavaScript's || *)

NULL == <<>>
Some(x) == <<x>>
Val(o) == o[1]

\* a || b on numbers: null, undefined and 0 are falsy
OrNum(a, b) == IF a # NULL /\ Val(a) # 0 THEN a ELSE b

\* a || b on text: null, undefined and "" are falsy
OrText(a, b) == IF a # NULL /\ Val(a) # <<>> THEN a ELSE b

\* a || b on short strings kept as TLA+ strings (status, currency)
OrTag(a, b) == IF a # NULL /\ Val(a) # "" THEN a ELSE b

IsSpace(c) == c \in {" ", "\t"}

RECURSIVE TrimStart(_)
TrimStart(s) ==
    IF s = <<>> THEN s
    ELSE IF IsSpace(Head(s)) THEN TrimStart(Tail(s)) ELSE s

RECURSIVE TrimEnd(_)
TrimEnd(s) ==
    IF s = <<>> THEN s
    ELSE IF IsSpace(s[Len(s)]) THEN TrimEnd(SubSeq(s, 1, Len(s) - 1)) ELSE s

\* String.prototype.trim
Trim(s) == TrimEnd(TrimStart(s))

TrimOrNull_Mutant(x) == IF x # NULL /\ Val(x) = <<>> THEN Some(Trim(Val(x))) ELSE NULL

\* x ? String(x).trim() : null
TrimOrNull(x) == IF x # NULL /\ Val(x) # <<>> THEN Some(Trim(Val(x))) ELSE NULL

----------------------------------------------------------------------------
(* Text used in the inputs *)

AcmeCo == <<"A", "c", "m", "e", " ", "C", "o">>
OakSt == <<"1", "2", " ", "O", "a", "k", " ", "S", "t">>
AcmeMail == <<"a", "c", "m", "e", "@", "c", "o", ".", "c", "o", "m">>
AcmePhone == <<"5", "5", "5", "-", "1", "2", "3", "4">>
Suite5 == <<"S", "u", "i", "t", "e", " ", "5">>
Widget == <<"W", "i", "d", "g", "e", "t">>

----------------------------------------------------------------------------
(* Extraction results as the client receives them (invoiceApi.ts) *)

\* one entry of ExtractedFields.items
Item(desc, quantity, qty, unitPrice, rate, totalPrice, amount) ==
    [description |-> desc, quantity |-> quantity, qty |-> qty,
     unitPrice |-> unitPrice, rate |-> rate,
     totalPrice |-> totalPrice, amount |-> amount]

BaseFields ==
    [vendor |-> Some(AcmeCo), vendor_address |-> Some(OakSt),
     vendor_email |-> Some(AcmeMail), vendor_phone |-> Some(AcmePhone),
     invoice_number |-> Some(<<"I", "-", "1">>),
     invoice_date |-> NULL, date |-> Some("2024-01-15"), due_date |-> NULL,
     bill_to_name |-> NULL, bill_to_address |-> NULL,
     total |-> Some(2200), subtotal |-> Some(2000), tax |-> Some(200),
     taxAmount |-> NULL, discount |-> NULL, currency |-> NULL,
     items |-> Some(<<Item(Some(Widget), Some(2), NULL, Some(1000), NULL,
                          Some(2000), NULL)>>),
     purchase_order |-> NULL]

AmountCases == {NULL, Some(0), Some(2000)}

TextCases == {NULL, Some(<<>>), Some(AcmeCo), Some(<<" ">> \o AcmeCo \o <<" ">>)}

ItemCases ==
    {NULL, Some(<<>>),
     \* quantity, unit price and total all recognized and consistent
     Some(<<Item(Some(Widget), Some(2), NULL, Some(1000), NULL, Some(2000), NULL)>>),
     \* legacy field names
     Some(<<Item(Some(Widget), NULL, Some(2), NULL, Some(1000), NULL, Some(2000))>>),
     \* only the line total recognized
     Some(<<Item(Some(Widget), NULL, NULL, NULL, NULL, Some(2000), NULL)>>),
     \* quantity and total recognized, unit price missing
     Some(<<Item(Some(Widget), Some(2), NULL, NULL, NULL, Some(2000), NULL)>>),
     \* a misread digit in the total
     Some(<<Item(Some(Widget), Some(2), NULL, Some(1000), NULL, Some(2500), NULL)>>),
     \* nothing but the description
     Some(<<Item(NULL, NULL, NULL, NULL, NULL, NULL, NULL)>>)}

\* the extracted fields the backend may answer with: the base document with
\* one group of fields varied at a time
FieldsCases ==
    {[BaseFields EXCEPT !.subtotal = a] : a \in AmountCases}
    \cup {[BaseFields EXCEPT !.tax = a, !.taxAmount = b] :
             a \in AmountCases, b \in {NULL, Some(200)}}
    \cup {[BaseFields EXCEPT !.discount = a] : a \in AmountCases}
    \cup {[BaseFields EXCEPT !.total = a] : a \in AmountCases}
    \cup {[BaseFields EXCEPT !.subtotal = NULL, !.tax = NULL,
                             !.discount = NULL, !.total = NULL]}
    \cup {[BaseFields EXCEPT !.items = i] : i \in ItemCases}
    \cup {[BaseFields EXCEPT !.vendor = t] : t \in TextCases}
    \cup {[BaseFields EXCEPT !.invoice_date = Some("2024-02-01")],
          [BaseFields EXCEPT !.date = NULL],
          [BaseFields EXCEPT !.currency = Some("EUR")]}

\* OCRResponse
OCRResponses ==
    {[success |-> TRUE, filename |-> "scan.png", image_path |-> NULL,
      raw_text |-> "raw", extracted_fields |-> f] : f \in FieldsCases}

----------------------------------------------------------------------------
(* Files the user may select *)

MaxFileSize == 10485760   \* 10 * 1024 * 1024

ImagePrefix == <<"i", "m", "a", "g", "e", "/">>

StartsWith_Mutant(s, prefix) == Len(s) >= Len(prefix)

\* String.prototype.startsWith
StartsWith(s, prefix) ==
    /\ Len(s) >= Len(prefix)
    /\ SubSeq(s, 1, Len(prefix)) = prefix

Files ==
    {[name |-> "scan.png", type |-> ImagePrefix \o <<"p", "n", "g">>, size |-> 1024],
     [name |-> "big.png", type |-> ImagePrefix \o <<"p", "n", "g">>,
      size |-> MaxFileSize + 1],
     [name |-> "edge.jpg", type |-> ImagePrefix \o <<"j", "p", "e", "g">>,
      size |-> MaxFileSize],
     [name |-> "scan.pdf",
      type |-> <<"a", "p", "p", "l", "i", "c", "a", "t", "i", "o", "n", "/", "p", "d", "f">>,
      size |-> 1024]}

----------------------------------------------------------------------------
(* The store: ocrSlice *)

OcrInitialState ==
    [result |-> NULL, loading |-> FALSE, error |-> NULL, uploadedFileName |-> NULL]

clearOCRResult(state) ==
    [state EXCEPT !.result = NULL, !.uploadedFileName = NULL, !.error = NULL]

OcrClearError(state) == [state EXCEPT !.error = NULL]

processInvoiceImagePending(state) ==
    [state EXCEPT !.loading = TRUE, !.error = NULL]

processInvoiceImageFulfilled(state, response, fileName) ==
    [state EXCEPT !.loading = FALSE, !.result = Some(response),
                  !.uploadedFileName = Some(fileName)]

processInvoiceImageRejected_Mutant(state) ==
    [state EXCEPT !.loading = FALSE, !.result = NULL,
                  !.error = Some("Failed to process invoice image")]

processInvoiceImageRejected(state) ==
    [state EXCEPT !.loading = FALSE,
                  !.error = Some("Failed to process invoice image")]

----------------------------------------------------------------------------
(* The store: invoiceSlice *)

InvoiceInitialState ==
    [invoices |-> <<>>, currentInvoice |-> NULL, loading |-> FALSE,
     error |-> NULL, totalCount |-> 0]

clearCurrentInvoice(state) == [state EXCEPT !.currentInvoice = NULL]

InvoiceClearError(state) == [state EXCEPT !.error = NULL]

\* every thunk's pending case
InvoicePending(state) == [state EXCEPT !.loading = TRUE, !.error = NULL]

\* every thunk's rejected case
InvoiceRejected(state, message) ==
    [state EXCEPT !.loading = FALSE, !.error = Some(message)]

fetchInvoicesFulfilled(state, list) ==
    [state EXCEPT !.loading = FALSE, !.invoices = list, !.totalCount = Len(list)]

fetchInvoiceByIdFulfilled(state, inv) ==
    [state EXCEPT !.loading = FALSE, !.currentInvoice = Some(inv)]

createInvoiceFulfilled(state, inv) ==
    [state EXCEPT !.loading = FALSE, !.invoices = <<inv>> \o @,
                  !.currentInvoice = Some(inv)]

\* Array.prototype.findIndex on the id; 0 when no element matches
FindIndexById(list, id) ==
    IF \E i \in DOMAIN list : list[i].id = id
    THEN CHOOSE i \in DOMAIN list :
             /\ list[i].id = id
             /\ \A j \in 1..(i - 1) : list[j].id # id
    ELSE 0

updateInvoiceFulfilled(state, inv) ==
    [state EXCEPT
       !.loading = FALSE,
       !.invoices = IF FindIndexById(@, inv.id) # 0
                    THEN [@ EXCEPT ![FindIndexById(@, inv.id)] = inv]
                    ELSE @,
       !.currentInvoice =
           IF @ # NULL /\ Val(@).id = inv.id THEN Some(inv) ELSE @]

RECURSIVE FilterOutId(_, _)
FilterOutId(list, id) ==
    IF list = <<>> THEN <<>>
    ELSE IF Head(list).id = id THEN FilterOutId(Tail(list), id)
    ELSE <<Head(list)>> \o FilterOutId(Tail(list), id)

deleteInvoiceFulfilled(state, id) ==
    [state EXCEPT
       !.loading = FALSE,
       !.invoices = FilterOutId(@, id),
       !.currentInvoice = IF @ # NULL /\ Val(@).id = id THEN NULL ELSE @]

----------------------------------------------------------------------------
(* Users, tokens and localStorage (services/authApi.ts) *)

UserA == "userA@test.com"
UserB == "userB@test.com"

TestUser == <<"T", "e", "s", "t", " ", "U", "s", "e", "r">>
Test123 == <<"t", "e", "s", "t", "1", "2", "3">>
Test12 == <<"t", "e", "s", "t", "1", "2">>
Test1 == <<"t", "e", "s", "t", "1">>

\* the tokens the backend issues to a user
TokenResponse(email) ==
    [access_token |-> <<"access", email>>, refresh_token |-> <<"refresh", email>>,
     token_type |-> "bearer"]

\* the user a bearer token stands for, NULL without a token
UserOfToken(token) == IF token = NULL THEN NULL ELSE Some(Val(token)[2])

User(account) ==
    [id |-> account.email, full_name |-> account.full_name, email |-> account.email]

\* the server answers a request whose bearer token stands for one of its
\* users, and answers 401 to any other
TokenAccepted(token) ==
    token # NULL /\ \E a \in accounts : a.email = Val(UserOfToken(token))

StorageEmpty == [access_token |-> NULL, refresh_token |-> NULL]

\* login: localStorage.setItem of both tokens
StoreTokens(store, response) ==
    [store EXCEPT !.access_token = Some(response.access_token),
                  !.refresh_token = Some(response.refresh_token)]

\* logout (finally) and the 401 interceptor: localStorage.removeItem of both
RemoveTokens(store) ==
    [store EXCEPT !.access_token = NULL, !.refresh_token = NULL]

getStoredToken(store) == store.access_token

getStoredRefreshToken(store) == store.refresh_token

isAuthenticated(store) == getStoredToken(store) # NULL

----------------------------------------------------------------------------
(* authSlice *)

AuthInitialState(store) ==
    [user |-> NULL, token |-> getStoredToken(store),
     refreshToken |-> getStoredRefreshToken(store),
     loading |-> FALSE, error |-> NULL,
     isAuthenticated |-> getStoredToken(store) # NULL]

signupPending(state) == [state EXCEPT !.loading = TRUE, !.error = NULL]

signupFulfilled_Mutant(state) ==
    [state EXCEPT !.loading = FALSE, !.isAuthenticated = TRUE]

signupFulfilled(state) == [state EXCEPT !.loading = FALSE]

signupRejected(state, message) ==
    [state EXCEPT !.loading = FALSE,
                  !.error = OrTag(message, Some("Failed to sign up"))]

loginPending(state) == [state EXCEPT !.loading = TRUE, !.error = NULL]

loginFulfilled(state, payload) ==
    [state EXCEPT !.loading = FALSE,
                  !.token = Some(payload.access_token),
                  !.refreshToken = Some(payload.refresh_token),
                  !.isAuthenticated = TRUE]

loginRejected_Mutant(state, message) ==
    [state EXCEPT !.loading = FALSE, !.isAuthenticated = FALSE]

loginRejected(state, message) ==
    [state EXCEPT !.loading = FALSE,
                  !.error = OrTag(message, Some("Failed to log in")),
                  !.isAuthenticated = FALSE]

logoutPending(state) == [state EXCEPT !.loading = TRUE]

logoutFulfilled_Mutant(state) ==
    [state EXCEPT !.loading = FALSE, !.user = NULL, !.isAuthenticated = FALSE]

logoutFulfilled(state) ==
    [state EXCEPT !.loading = FALSE, !.user = NULL, !.token = NULL,
                  !.refreshToken = NULL, !.isAuthenticated = FALSE]

logoutRejected(state) ==
    [state EXCEPT !.loading = FALSE, !.user = NULL, !.token = NULL,
                  !.refreshToken = NULL, !.isAuthenticated = FALSE]

fetchCurrentUserPending(state) == [state EXCEPT !.loading = TRUE, !.error = NULL]

fetchCurrentUserFulfilled(state, user) ==
    [state EXCEPT !.loading = FALSE, !.user = Some(user), !.isAuthenticated = TRUE]

fetchCurrentUserRejected(state, message) ==
    [state EXCEPT !.loading = FALSE,
                  !.error = OrTag(message, Some("Failed to fetch user")),
                  !.isAuthenticated = FALSE, !.token = NULL, !.refreshToken = NULL]

\* the store of a session whose login completed: tokens and user loaded
SignedIn(account) ==
    fetchCurrentUserFulfilled(
        loginFulfilled(AuthInitialState(StorageEmpty), TokenResponse(account.email)),
        User(account))

----------------------------------------------------------------------------
(* ProtectedRoute: local state *)

\* frames: the auth states with which the guard of a protected page rendered
\* its children in the course of the last step that rendered it
GuardInitialState == [isMounted |-> FALSE, hasToken |-> FALSE, frames |-> {}]

\* the mount effect: setIsMounted(true); setHasToken(isAuthenticated())
GuardMounted(store) ==
    [isMounted |-> TRUE, hasToken |-> isAuthenticated(store), frames |-> {}]

----------------------------------------------------------------------------
(* Accounts of the backend *)

Account(email, full_name, password) ==
    [email |-> email, full_name |-> full_name, password |-> password]

AccountA == Account(UserA, TestUser, Test123)

\* a session of user A, logged in, on a mounted page
SessionOfA ==
    /\ auth = SignedIn(AccountA)
    /\ storage = StoreTokens(StorageEmpty, TokenResponse(UserA))
    /\ guard = GuardMounted(storage)
    /\ accounts = {AccountA}
    /\ faults = 0

----------------------------------------------------------------------------
(* UploadInvoicePage *)

UploadInitialState == [selectedFile |-> NULL, showPreview |-> FALSE]

\* a user action; none while the document is being replaced
Click == clicks < MaxUserActions /\ clicks' = clicks + 1 /\ route.page # "reload"

NoClick == UNCHANGED clicks

\* a user action in a session that signs up, logs in, logs out and opens
\* routes
SessionClick == Click /\ clicks < MaxSessionActions

\* what a handler did: the store actions it dispatched, the requests it sent
\* and the toast it showed
Action(name, dispatched, sent, toast) ==
    [name |-> name, dispatched |-> dispatched, sent |-> sent, toast |-> toast]

NoBody == [none |-> TRUE]

RecentLimit == 5

\* a request as the request interceptor sends it: the stored access token
\* goes with it
Request(kind, id, body) ==
    [kind |-> kind, id |-> id, body |-> body, inst |-> route.inst,
     token |-> getStoredToken(storage)]

OnUploadPage == route.page = "upload" /\ route.mounted

\* handleSaveInvoice: OCR items to the record's rows
MappedItem(item) ==
    [description |-> Val(OrText(item.description, Some(<<>>))),
     qty |-> Val(OrNum(OrNum(item.quantity, item.qty), Some(1))),
     rate |-> Val(OrNum(OrNum(item.unitPrice, item.rate), Some(0))),
     amount |-> Val(OrNum(OrNum(item.totalPrice, item.amount), Some(0)))]

MappedItems(extracted) ==
    IF extracted.items # NULL
    THEN Some([i \in DOMAIN Val(extracted.items) |->
                  MappedItem(Val(extracted.items)[i])])
    ELSE NULL

UploadStatus_Mutant == "Draft"

UploadStatus == "Pending Review"

\* handleSaveInvoice: the record sent to createInvoice
InvoiceData(ocrResult) ==
    LET extracted == ocrResult.extracted_fields IN
    [invoice_number |-> TrimOrNull(extracted.invoice_number),
     vendor |-> TrimOrNull(extracted.vendor),
     vendor_address |-> TrimOrNull(extracted.vendor_address),
     vendor_email |-> TrimOrNull(extracted.vendor_email),
     vendor_phone |-> TrimOrNull(extracted.vendor_phone),
     bill_to_name |-> TrimOrNull(extracted.bill_to_name),
     bill_to_address |-> TrimOrNull(extracted.bill_to_address),
     invoice_date |-> OrTag(OrTag(extracted.invoice_date, extracted.date), NULL),
     due_date |-> OrTag(extracted.due_date, NULL),
     purchase_order |-> TrimOrNull(extracted.purchase_order),
     subtotal |-> OrNum(extracted.subtotal, Some(0)),
     tax |-> OrNum(OrNum(extracted.taxAmount, extracted.tax), Some(0)),
     tax_amount |-> OrNum(OrNum(extracted.taxAmount, extracted.tax), Some(0)),
     discount |-> OrNum(extracted.discount, Some(0)),
     total |-> OrNum(extracted.total, Some(0)),
     currency |-> Val(OrTag(extracted.currency, Some("USD"))),
     status |-> UploadStatus,
     raw_text |-> ocrResult.raw_text,
     extracted_fields |-> extracted,
     line_items |-> MappedItems(extracted),
     image_path |-> OrTag(ocrResult.image_path, NULL)]

\* the browser goes to a page; its component is not mounted yet
GoTo(page, id, variant) ==
    [page |-> page, id |-> id, variant |-> variant,
     inst |-> route.inst + 1, mounted |-> FALSE]

----------------------------------------------------------------------------
(* Navigation and ProtectedRoute.  Effects run on the store, the browser's *)
(* route and the requests in flight together; World is that part of the    *)
(* state, on which a handler and the effects it triggers are computed.     *)

World ==
    [auth |-> auth, invoices |-> invoices, net |-> net, route |-> route,
     guard |-> [guard EXCEPT !.frames = {}], storage |-> storage]

\* the dashboard, the upload page, the list and the detail page are wrapped
\* in <ProtectedRoute>, login and signup in <ProtectedRoute requireAuth={false}>
RequireAuth(page) == page \notin {"login", "signup"}

\* router.push: a client-side navigation, the store is kept
Push(r, page) ==
    IF r.page = page THEN r
    ELSE [page |-> page, id |-> NULL, variant |-> "current",
          inst |-> r.inst + 1, mounted |-> FALSE]

PushTo(w, target) ==
    IF target = NULL THEN w
    ELSE [w EXCEPT !.route = Push(w.route, Val(target)),
                   !.guard = IF w.route.page = Val(target) THEN w.guard
                             ELSE [GuardInitialState EXCEPT
                                      !.frames = w.guard.frames]]

Redirect_Mutant(requireAuth, hasToken, authState, loading) ==
    IF requireAuth
    THEN IF ~authState /\ ~loading THEN Some("login") ELSE NULL
    ELSE IF hasToken /\ authState THEN Some("home") ELSE NULL

\* checkAuth's redirects: a protected page sends to /login without a token
\* or when the store is not authenticated and not loading; a public page
\* sends to / with a token and an authenticated store
Redirect(requireAuth, hasToken, authState, loading) ==
    IF requireAuth
    THEN IF ~hasToken \/ (~authState /\ ~loading) THEN Some("login") ELSE NULL
    ELSE IF hasToken /\ authState THEN Some("home") ELSE NULL

\* GET /api/auth/me as it is sent, with what its dispatcher does once it is
\* answered: origin names the dispatcher, and checkAuth's continuation
\* redirects on the values of the render that started it
MeRequest(w, origin) ==
    [kind |-> "me", id |-> NULL,
     body |-> [origin |-> origin,
               requireAuth |-> RequireAuth(w.route.page),
               hasToken |-> w.guard.hasToken,
               authState |-> w.auth.isAuthenticated],
     inst |-> w.route.inst, token |-> getStoredToken(w.storage)]

DispatchFetchCurrentUser(w, origin) ==
    [w EXCEPT !.auth = fetchCurrentUserPending(w.auth),
              !.net = w.net \cup {MeRequest(w, origin)}]

DefaultLimit == 100

ListLimit == 25

ListRequest(w, limit) ==
    [kind |-> "list", id |-> NULL, body |-> [limit |-> limit],
     inst |-> w.route.inst, token |-> getStoredToken(w.storage)]

DispatchFetchInvoices(w, limit) ==
    [w EXCEPT !.invoices = InvoicePending(w.invoices),
              !.net = w.net \cup {ListRequest(w, limit)}]

\* one run of ProtectedRoute's auth effect, on the values a of the render
\* that scheduled it
checkAuth(w, a) ==
    IF ~w.guard.isMounted THEN w
    ELSE IF w.guard.hasToken /\ a.user = NULL /\ ~a.loading
         THEN DispatchFetchCurrentUser(w, "checkAuth")
         ELSE PushTo(w, Redirect(RequireAuth(w.route.page), w.guard.hasToken,
                                 a.isAuthenticated, a.loading))

\* the page's own effect, on the values a of the render that scheduled it:
\* login and signup leave for / when the store is authenticated; the
\* dashboard fetches the user if the store has none and (current version)
\* the invoices
PageEffect(w, a, page, variant) ==
    CASE page \in {"login", "signup"} ->
           IF a.isAuthenticated THEN PushTo(w, Some("home")) ELSE w
      [] page = "home" ->
           LET w1 == IF a.user = NULL
                     THEN DispatchFetchCurrentUser(w, "Home") ELSE w
           IN IF variant = "current"
              THEN DispatchFetchInvoices(w1, DefaultLimit) ELSE w1
      [] OTHER -> w

\* the dependencies of the page's effect
PageDeps(a, page) ==
    CASE page \in {"login", "signup"} -> <<a.isAuthenticated>>
      [] page = "home" -> <<a.user>>
      [] OTHER -> <<>>

GuardDeps(a) == <<a.isAuthenticated, a.user, a.loading>>

Rendered_Mutant(g, a, requireAuth) ==
    IF ~g.isMounted THEN "spinner"
    ELSE IF a.loading THEN "spinner"
    ELSE IF requireAuth /\ ~g.hasToken /\ ~a.isAuthenticated THEN "nothing"
    ELSE IF ~requireAuth /\ g.hasToken /\ a.isAuthenticated THEN "nothing"
    ELSE "children"

\* what ProtectedRoute renders
Rendered(g, a, requireAuth) ==
    IF ~g.isMounted THEN "spinner"
    ELSE IF a.loading \/ (g.hasToken /\ a.user = NULL /\ requireAuth) THEN "spinner"
    ELSE IF requireAuth /\ ~g.hasToken /\ ~a.isAuthenticated THEN "nothing"
    ELSE IF ~requireAuth /\ g.hasToken /\ a.isAuthenticated THEN "nothing"
    ELSE "children"

\* what the store's auth state looks like to a render
Frame(a) ==
    [isAuthenticated |-> a.isAuthenticated, user |-> a.user # NULL,
     loading |-> a.loading]

\* one render of the mounted page: the guard of a protected page that
\* returns its children does so on the store's auth state of that moment
Render(w) ==
    IF /\ w.route.mounted /\ RequireAuth(w.route.page)
       /\ Rendered(w.guard, w.auth, TRUE) = "children"
    THEN [w EXCEPT !.guard.frames = @ \cup {Frame(w.auth)}]
    ELSE w

\* the store's auth state went from old to w.auth: the mounted page renders
\* again and the effects whose dependencies changed run, the child's
\* (ProtectedRoute) before the page's; what they dispatch renders again
RECURSIVE RunEffects(_, _)
RunEffects(w, old) ==
    IF ~w.route.mounted \/ w.auth = old THEN w
    ELSE LET a == w.auth
             page == w.route.page
             variant == w.route.variant
             wr == Render(w)
             w1 == IF GuardDeps(a) # GuardDeps(old) THEN checkAuth(wr, a) ELSE wr
             w2 == IF PageDeps(a, page) # PageDeps(old, page)
                   THEN PageEffect(w1, a, page, variant) ELSE w1
         IN RunEffects(w2, a)

\* the first commit of a page and the render that follows it: the mount
\* effect of ProtectedRoute sets isMounted and hasToken, the page's effect
\* runs, and the auth effect runs once the guard is mounted
Mounted(w, variant) ==
    [w EXCEPT !.route.mounted = TRUE, !.route.variant = variant,
              !.guard = GuardMounted(w.storage)]

\* w: the world after the first commit's effects
GuardAfterMount(w) == RunEffects(checkAuth(Render(w), w.auth), w.auth)

MountPage_Mutant(w, variant) == Mounted(w, variant)

MountPage(w, variant) ==
    GuardAfterMount(PageEffect(Mounted(w, variant), w.auth, w.route.page, variant))

\* the page's content is on screen
ChildrenShown ==
    route.mounted /\ Rendered(guard, auth, RequireAuth(route.page)) = "children"

\* the world a step leaves behind
Becomes(w) ==
    \E next \in {w} :
       /\ auth' = next.auth
       /\ invoices' = next.invoices
       /\ net' = next.net
       /\ route' = next.route
       /\ guard' = next.guard
       /\ storage' = next.storage
       /\ Cardinality(next.net) <= MaxSessionRequests
       /\ next.route.inst <= MaxNavigations

----------------------------------------------------------------------------
(* UploadInvoicePage: the page *)

\* the navbar is rendered for an authenticated store only
NavbarShown == auth.isAuthenticated

\* the user opens /upload-invoice (navbar link)
OpenUploadPage ==
    /\ Click
    /\ NavbarShown
    /\ route' = GoTo("upload", NULL, "current")
    /\ guard' = GuardInitialState
    /\ lastAction' = Action("navigate", {},
                          {}, "none")
    /\ UNCHANGED <<ocr, invoices, upload, detail, net, db, engine>>
    /\ UNCHANGED <<auth, storage, accounts, faults>>

\* first render of UploadInvoicePage: fresh local state, and the mount
\* effect fetches the recent invoices
MountUploadPage ==
    /\ NoClick
    /\ route.page = "upload" /\ ~route.mounted
    /\ Cardinality(net) < MaxInFlight
    /\ Becomes(GuardAfterMount(
          DispatchFetchInvoices(Mounted(World, "current"), RecentLimit)))
    /\ upload' = UploadInitialState
    /\ lastAction' = Action("UploadInvoicePage.mount", {"invoices/fetchInvoices/pending"},
                          {"list"}, "none")
    /\ UNCHANGED <<ocr, detail, db, engine>>
    /\ UNCHANGED <<accounts, faults>>

handleFileSelect(file) ==
    /\ Click
    /\ OnUploadPage
    /\ IF ~StartsWith(file.type, ImagePrefix) \/ file.size > MaxFileSize
       THEN /\ lastAction' = Action("handleFileSelect", {},
                          {}, "error")
            /\ UNCHANGED <<ocr, invoices, upload, detail, net, db, route, engine>>
       ELSE /\ Cardinality(net) < MaxInFlight
            /\ upload' = [selectedFile |-> Some(file), showPreview |-> FALSE]
            /\ ocr' = processInvoiceImagePending(clearOCRResult(ocr))
            /\ net' = net \cup {Request("ocr", NULL, file)}
            /\ lastAction' = Action("handleFileSelect", {"ocr/clearOCRResult", "ocr/processInvoiceImage/pending"},
                          {"ocr"}, "none")
            /\ UNCHANGED <<invoices, detail, db, route, engine>>
    /\ UNCHANGED authVars

\* the backend answers an upload; handleFileSelect resumes after its await
ProcessInvoiceImageFulfilled(r, response) ==
    /\ NoClick
    /\ r \in net /\ r.kind = "ocr"
    /\ r.token # NULL
    /\ net' = net \ {r}
    /\ ocr' = processInvoiceImageFulfilled(ocr, response, r.body.name)
    /\ upload' = IF OnUploadPage /\ r.inst = route.inst
                 THEN [upload EXCEPT !.showPreview = TRUE]
                 ELSE upload
    /\ lastAction' = Action("processInvoiceImage.fulfilled", {"ocr/processInvoiceImage/fulfilled"},
                          {}, "success")
    /\ UNCHANGED <<invoices, detail, db, route, engine>>
    /\ UNCHANGED authVars

ProcessInvoiceImageRejected(r) ==
    /\ NoClick
    /\ r \in net /\ r.kind = "ocr"
    /\ net' = net \ {r}
    /\ ocr' = processInvoiceImageRejected(ocr)
    /\ lastAction' = Action("processInvoiceImage.rejected", {"ocr/processInvoiceImage/rejected"},
                          {}, "error")
    /\ UNCHANGED <<invoices, upload, detail, db, route, engine>>
    /\ UNCHANGED authVars

\* the Clear button of the preview
ClearPreview ==
    /\ Click
    /\ OnUploadPage
    /\ upload.showPreview /\ ocr.result # NULL
    /\ upload' = [selectedFile |-> NULL, showPreview |-> FALSE]
    /\ ocr' = clearOCRResult(ocr)
    /\ lastAction' = Action("clearOCRResult", {"ocr/clearOCRResult"},
                          {}, "none")
    /\ UNCHANGED <<invoices, detail, net, db, route, engine>>
    /\ UNCHANGED authVars

\* the clearError reducer of ocrSlice
ClearOcrError ==
    /\ NoClick
    /\ ocr.error # NULL
    /\ ocr' = OcrClearError(ocr)
    /\ lastAction' = Action("ocr/clearError", {"ocr/clearError"},
                          {}, "none")
    /\ UNCHANGED <<invoices, upload, detail, net, db, route, engine>>
    /\ UNCHANGED authVars

\* the Save Invoice button: shown with the preview, disabled while the
\* invoice slice is loading
SaveButtonEnabled_Mutant ==
    /\ upload.showPreview /\ ocr.result # NULL /\ ~invoices.loading
    /\ Val(ocr.result).extracted_fields.items # Some(<<>>)

\* the "Save Invoice" button: rendered with the preview of a result, disabled
\* while an invoice request is loading
SaveButtonEnabled ==
    upload.showPreview /\ ocr.result # NULL /\ ~invoices.loading

handleSaveInvoice ==
    /\ Click
    /\ OnUploadPage
    /\ SaveButtonEnabled
    /\ IF ocr.result = NULL
       THEN /\ lastAction' = Action("handleSaveInvoice", {},
                          {}, "error")
            /\ UNCHANGED <<ocr, invoices, upload, detail, net, db, route, engine>>
       ELSE /\ Cardinality(net) < MaxInFlight
            /\ invoices' = InvoicePending(invoices)
            /\ net' = net \cup {Request("create", NULL, InvoiceData(Val(ocr.result)))}
            /\ lastAction' = Action("handleSaveInvoice", {"invoices/createInvoice/pending"},
                          {"create"}, "none")
            /\ UNCHANGED <<ocr, upload, detail, db, route, engine>>
    /\ UNCHANGED authVars

----------------------------------------------------------------------------
(* The backend's invoice endpoints (backend/README.md) *)

DbInitialState == [rows |-> <<>>, nextId |-> 1]

HasId(rows, id) == \E i \in DOMAIN rows : rows[i].id = id

RowById(rows, id) == rows[CHOOSE i \in DOMAIN rows : rows[i].id = id]

\* POST /api/invoices: the record is the request body under a new id, owned
\* by the user of the request's token
ServerCreate(body, id, owner) == [id |-> id, user_id |-> owner] @@ body

\* the records of one user
RECURSIVE OwnedBy(_, _)
OwnedBy(rows, owner) ==
    IF rows = <<>> THEN <<>>
    ELSE IF Head(rows).user_id = owner
         THEN <<Head(rows)>> \o OwnedBy(Tail(rows), owner)
         ELSE OwnedBy(Tail(rows), owner)

\* the record of that id, if it is the user's
Owns(rows, id, owner) ==
    \E i \in DOMAIN rows : rows[i].id = id /\ rows[i].user_id = owner

\* PUT /api/invoices/{id}: the fields of the body replace the record's
ServerUpdate(rec, body) ==
    [f \in DOMAIN rec |-> IF f \in DOMAIN body THEN body[f] ELSE rec[f]]

\* GET /api/invoices?limit=n: the first n records of the user
ServerList(rows, limit, owner) ==
    LET own == OwnedBy(rows, owner) IN
    SubSeq(own, 1, IF Len(own) < limit THEN Len(own) ELSE limit)

----------------------------------------------------------------------------
(* The invoice detail page.  The repository holds two versions of it:      *)
(* "current" is app/invoice-detailes/page.tsx, "legacy" the older          *)
(* InvoiceDetailPage.                                                      *)

Variants == {"current", "legacy"}

statusOptions(variant) ==
    IF variant = "current"
    THEN {"Paid", "Rejected", "Pending Review", "Draft"}
    ELSE {"Pending Review", "Approved", "Rejected", "Paid", "Overdue", "Draft"}

OrStatus(a, b) == IF a # "" THEN a ELSE b

\* useState initial values
DetailInvoiceDataInitial(variant) ==
    LET common ==
          [invoice_number |-> <<>>, invoice_date |-> "", due_date |-> "",
           purchase_order |-> <<>>, vendor |-> <<>>, vendor_address |-> <<>>,
           vendor_email |-> <<>>, vendor_phone |-> <<>>,
           subtotal |-> Some(0), tax |-> Some(0), discount |-> Some(0),
           total |-> Some(0), status |-> "Pending Review"]
    IN IF variant = "current"
       THEN common @@ [bill_to_name |-> <<>>, bill_to_address |-> <<>>]
       ELSE common

DetailInitialState(variant) ==
    [invoiceData |-> DetailInvoiceDataInitial(variant), lineItems |-> <<>>,
     saving |-> FALSE, rnd |-> 0]

\* s.split('T')[0] on the date strings of the model
DatePart(s) ==
    CASE s = "2024-01-15T00:00:00" -> "2024-01-15"
      [] s = "2024-02-01T00:00:00" -> "2024-02-01"
      [] OTHER -> s

\* the load effect: setInvoiceData from currentInvoice
LoadInvoiceData(inv, variant) ==
    LET common ==
          [invoice_number |-> Val(OrText(inv.invoice_number, Some(<<>>))),
           invoice_date |-> DatePart(Val(OrTag(inv.invoice_date, Some("")))),
           due_date |-> DatePart(Val(OrTag(inv.due_date, Some("")))),
           purchase_order |-> Val(OrText(inv.purchase_order, Some(<<>>))),
           vendor |-> Val(OrText(inv.vendor, Some(<<>>))),
           vendor_address |-> Val(OrText(inv.vendor_address, Some(<<>>))),
           vendor_email |-> Val(OrText(inv.vendor_email, Some(<<>>))),
           vendor_phone |-> Val(OrText(inv.vendor_phone, Some(<<>>))),
           subtotal |-> inv.subtotal,
           tax |-> IF variant = "current"
                   THEN OrNum(OrNum(inv.tax_amount, inv.tax), Some(0))
                   ELSE inv.tax,
           discount |-> inv.discount,
           total |-> inv.total,
           status |-> OrStatus(inv.status, "Pending Review")]
    IN IF variant = "current"
       THEN common @@
            [bill_to_name |-> Val(OrText(inv.bill_to_name, Some(<<>>))),
             bill_to_address |-> Val(OrText(inv.bill_to_address, Some(<<>>)))]
       ELSE common

\* the load effect: setLineItems from currentInvoice.line_items
LoadLineItems(inv) ==
    IF inv.line_items # NULL /\ Len(Val(inv.line_items)) > 0
    THEN [i \in DOMAIN Val(inv.line_items) |->
            LET item == Val(inv.line_items)[i] IN
            [id |-> i - 1,
             description |-> item.description,
             qty |-> IF item.qty # 0 THEN item.qty ELSE 1,
             rate |-> item.rate,
             amount |-> item.amount]]
    ELSE <<>>

\* the effect on [currentInvoice, invoiceId, isMounted]
LoadEffect(local, current, variant) ==
    IF current # NULL
    THEN [local EXCEPT !.invoiceData = LoadInvoiceData(Val(current), variant),
                       !.lineItems = LoadLineItems(Val(current))]
    ELSE local

OnDetailPage == route.page = "detail" /\ route.mounted

\* the form is rendered only when the store holds a current invoice
DetailFormShown == OnDetailPage /\ invoices.currentInvoice # NULL

\* the detail page's local state after the store changed currentInvoice
DetailAfter(newInvoices, replaced) ==
    IF OnDetailPage /\ replaced
    THEN LoadEffect(detail, newInvoices.currentInvoice, route.variant)
    ELSE detail

\* the user opens /invoice-detailes?id=... (a list row, or a typed URL)
OpenDetailPage(id, variant) ==
    /\ Click
    /\ route' = GoTo("detail", id, variant)
    /\ guard' = GuardInitialState
    /\ lastAction' = Action("navigate", {},
                          {}, "none")
    /\ UNCHANGED <<ocr, invoices, upload, detail, net, db, engine>>
    /\ UNCHANGED <<auth, storage, accounts, faults>>

\* first render of the detail page: fresh local state, the fetch effect and
\* the load effect
MountDetailPage ==
    /\ NoClick
    /\ route.page = "detail" /\ ~route.mounted
    /\ IF route.id # NULL
       THEN /\ Cardinality(net) < MaxInFlight
            /\ Becomes(GuardAfterMount(
                  [Mounted(World, route.variant) EXCEPT
                      !.invoices = InvoicePending(invoices),
                      !.net = net \cup {Request("fetchById", route.id, NoBody)}]))
            /\ detail' = LoadEffect(DetailInitialState(route.variant),
                                    invoices.currentInvoice, route.variant)
            /\ lastAction' = Action("InvoiceDetailPage.mount", {"invoices/fetchInvoiceById/pending"},
                          {"fetchById"}, "none")
       ELSE /\ LET w == GuardAfterMount(Mounted(World, route.variant))
               IN Becomes(IF w.route.mounted
                          THEN [w EXCEPT !.route = GoTo("invoices", NULL, "current"),
                                         !.guard = [GuardInitialState EXCEPT
                                                       !.frames = w.guard.frames]]
                          ELSE w)
            /\ detail' = LoadEffect(DetailInitialState(route.variant),
                                    invoices.currentInvoice, route.variant)
            /\ lastAction' = Action("InvoiceDetailPage.mount", {},
                          {}, "error")
    /\ UNCHANGED <<ocr, upload, db, engine>>
    /\ UNCHANGED <<accounts, faults>>

\* the values a user types into the form
StatusInputs == statusOptions(route.variant)
AmountInputs == {0, 500}
TextInputs == {<<>>, Suite5}

CanEdit == DetailFormShown

handleInputChange(field, value) ==
    /\ Click
    /\ CanEdit
    /\ detail' = [detail EXCEPT !.invoiceData[field] = value]
    /\ lastAction' = Action("handleInputChange", {},
                          {}, "none")
    /\ UNCHANGED <<ocr, invoices, upload, net, db, route, engine>>
    /\ UNCHANGED authVars

addLineItem ==
    /\ Click
    /\ CanEdit
    /\ Len(detail.lineItems) < MaxLineItems
    /\ detail' = [detail EXCEPT
                    !.lineItems = Append(@, [id |-> 100 + detail.rnd,
                                             description |-> <<>>, qty |-> 1,
                                             rate |-> 0, amount |-> 0]),
                    !.rnd = @ + 1]
    /\ lastAction' = Action("addLineItem", {},
                          {}, "none")
    /\ UNCHANGED <<ocr, invoices, upload, net, db, route, engine>>
    /\ UNCHANGED authVars

RECURSIVE FilterOutItem(_, _)
FilterOutItem(items, id) ==
    IF items = <<>> THEN <<>>
    ELSE IF Head(items).id = id THEN FilterOutItem(Tail(items), id)
    ELSE <<Head(items)>> \o FilterOutItem(Tail(items), id)

removeLineItem(id) ==
    /\ Click
    /\ CanEdit
    /\ \E i \in DOMAIN detail.lineItems : detail.lineItems[i].id = id
    /\ detail' = [detail EXCEPT !.lineItems = FilterOutItem(@, id)]
    /\ lastAction' = Action("removeLineItem", {},
                          {}, "none")
    /\ UNCHANGED <<ocr, invoices, upload, net, db, route, engine>>
    /\ UNCHANGED authVars

UpdatedItem(item, field, value) ==
    LET updated == [item EXCEPT ![field] = value] IN
    IF field \in {"qty", "rate"}
    THEN [updated EXCEPT !.amount = updated.qty * updated.rate]
    ELSE updated

updateLineItem(id, field, value) ==
    /\ Click
    /\ CanEdit
    /\ \E i \in DOMAIN detail.lineItems : detail.lineItems[i].id = id
    /\ detail' = [detail EXCEPT
                    !.lineItems = [i \in DOMAIN @ |->
                                     IF @[i].id = id
                                     THEN UpdatedItem(@[i], field, value)
                                     ELSE @[i]]]
    /\ lastAction' = Action("updateLineItem", {},
                          {}, "none")
    /\ UNCHANGED <<ocr, invoices, upload, net, db, route, engine>>
    /\ UNCHANGED authVars

RECURSIVE SumAmounts(_)
SumAmounts(items) ==
    IF items = <<>> THEN 0 ELSE Head(items).amount + SumAmounts(Tail(items))

calculateSubtotal(local) == SumAmounts(local.lineItems)

calculateTotal(local, variant) ==
    LET subtotal == IF variant = "current"
                    THEN Val(OrNum(local.invoiceData.subtotal,
                                   Some(calculateSubtotal(local))))
                    ELSE calculateSubtotal(local)
        tax == Val(OrNum(local.invoiceData.tax, Some(0)))
        discount == Val(OrNum(local.invoiceData.discount, Some(0)))
    IN subtotal + tax - discount

EmptyToNull(text) == IF text = <<>> THEN NULL ELSE Some(text)

EmptyTagToNull(tag) == IF tag = "" THEN NULL ELSE Some(tag)

SavedItems(local) ==
    [i \in DOMAIN local.lineItems |->
       [description |-> local.lineItems[i].description,
        qty |-> local.lineItems[i].qty,
        rate |-> local.lineItems[i].rate,
        amount |-> local.lineItems[i].amount]]

\* handleSave: the record sent to updateInvoice
UpdateData(local, variant) ==
    LET d == local.invoiceData
        common ==
          [invoice_number |-> EmptyToNull(d.invoice_number),
           invoice_date |-> EmptyTagToNull(d.invoice_date),
           due_date |-> EmptyTagToNull(d.due_date),
           purchase_order |-> EmptyToNull(d.purchase_order),
           vendor |-> EmptyToNull(d.vendor),
           vendor_address |-> EmptyToNull(d.vendor_address),
           vendor_email |-> EmptyToNull(d.vendor_email),
           vendor_phone |-> EmptyToNull(d.vendor_phone),
           tax |-> d.tax,
           discount |-> d.discount,
           status |-> d.status,
           line_items |-> Some(SavedItems(local))]
    IN IF variant = "current"
       THEN common @@
            [bill_to_name |-> EmptyToNull(d.bill_to_name),
             bill_to_address |-> EmptyToNull(d.bill_to_address),
             subtotal |-> OrNum(d.subtotal, Some(calculateSubtotal(local))),
             tax_amount |-> d.tax,
             total |-> OrNum(d.total, Some(calculateTotal(local, variant)))]
       ELSE common @@
            [subtotal |-> Some(calculateSubtotal(local)),
             total |-> Some(calculateTotal(local, variant))]

updateInvoice_Mutant(id, data) ==
    Request("update", id, data @@ [raw_text |-> "raw", extracted_fields |-> NULL])

\* updateInvoice(id, invoice): PUT /api/invoices/{id}
updateInvoice(id, data) == Request("update", id, data)

\* the Save Invoice control.  In the current page it is a link to /invoices
\* whose click handler is handleSave; in the legacy page it is a button that
\* is disabled while saving.
handleSave ==
    /\ Click
    /\ DetailFormShown
    /\ route.variant = "legacy" => ~detail.saving
    /\ IF route.id = NULL
       THEN /\ lastAction' = Action("handleSave", {},
                          {}, "none")
            /\ UNCHANGED <<invoices, net, detail>>
       ELSE /\ Cardinality(net) < MaxInFlight
            /\ detail' = [detail EXCEPT !.saving = TRUE]
            /\ invoices' = InvoicePending(invoices)
            /\ net' = net \cup {updateInvoice(route.id,
                                              UpdateData(detail, route.variant))}
            /\ lastAction' = Action("handleSave", {"invoices/updateInvoice/pending"},
                          {"update"}, "none")
    /\ route' = IF route.variant = "current"
                THEN GoTo("invoices", NULL, "current")
                ELSE route
    /\ guard' = IF route.variant = "current" THEN GuardInitialState ELSE guard
    /\ UNCHANGED <<ocr, upload, db, engine>>
    /\ UNCHANGED <<auth, storage, accounts, faults>>

----------------------------------------------------------------------------
(* The invoices list page *)

OpenInvoicesPage ==
    /\ Click
    /\ NavbarShown
    /\ route' = GoTo("invoices", NULL, "current")
    /\ guard' = GuardInitialState
    /\ lastAction' = Action("navigate", {},
                          {}, "none")
    /\ UNCHANGED <<ocr, invoices, upload, detail, net, db, engine>>
    /\ UNCHANGED <<auth, storage, accounts, faults>>

\* first render of InvoicesListPage: loadInvoices
MountInvoicesPage ==
    /\ NoClick
    /\ route.page = "invoices" /\ ~route.mounted
    /\ Cardinality(net) < MaxInFlight
    /\ Becomes(GuardAfterMount(
          DispatchFetchInvoices(Mounted(World, "current"), ListLimit)))
    /\ lastAction' = Action("InvoicesListPage.mount", {"invoices/fetchInvoices/pending"},
                          {"list"}, "none")
    /\ UNCHANGED <<ocr, upload, detail, db, engine>>
    /\ UNCHANGED <<accounts, faults>>

----------------------------------------------------------------------------
(* The backend answers *)

\* continuation of a handler of the detail page instance that sent r
SavingDone(local, r) ==
    IF OnDetailPage /\ r.inst = route.inst
    THEN [local EXCEPT !.saving = FALSE]
    ELSE local

CreateInvoiceFulfilled(r) ==
    /\ NoClick
    /\ r \in net /\ r.kind = "create"
    /\ r.token # NULL
    /\ Len(db.rows) < MaxInvoices
    /\ LET inv == ServerCreate(r.body, db.nextId, Val(UserOfToken(r.token))) IN
         /\ db' = [rows |-> Append(db.rows, inv), nextId |-> db.nextId + 1]
         /\ invoices' = createInvoiceFulfilled(invoices, inv)
         /\ detail' = DetailAfter(createInvoiceFulfilled(invoices, inv), TRUE)
         \* handleSaveInvoice resumes: router.push to the new record
         /\ route' = GoTo("detail", Some(inv.id), "current")
         /\ guard' = GuardInitialState
    /\ net' = net \ {r}
    /\ lastAction' = Action("createInvoice.fulfilled", {"invoices/createInvoice/fulfilled"},
                          {}, "success")
    /\ UNCHANGED <<ocr, upload, engine>>
    /\ UNCHANGED <<auth, storage, accounts, faults>>

CreateInvoiceRejected(r) ==
    /\ NoClick
    /\ r \in net /\ r.kind = "create"
    /\ net' = net \ {r}
    /\ invoices' = InvoiceRejected(invoices, "Failed to create invoice")
    /\ lastAction' = Action("createInvoice.rejected", {"invoices/createInvoice/rejected"},
                          {}, "error")
    /\ UNCHANGED <<ocr, upload, detail, db, route, engine>>
    /\ UNCHANGED authVars

FetchInvoicesFulfilled(r) ==
    /\ NoClick
    /\ r \in net /\ r.kind = "list"
    /\ TokenAccepted(r.token)
    /\ net' = net \ {r}
    /\ invoices' = fetchInvoicesFulfilled(invoices,
                       ServerList(db.rows, r.body.limit, Val(UserOfToken(r.token))))
    /\ lastAction' = Action("fetchInvoices.fulfilled", {"invoices/fetchInvoices/fulfilled"},
                          {}, "none")
    /\ UNCHANGED <<ocr, upload, detail, db, route, engine>>
    /\ UNCHANGED authVars

FetchInvoicesRejected(r) ==
    /\ NoClick
    /\ r \in net /\ r.kind = "list"
    /\ net' = net \ {r}
    /\ invoices' = InvoiceRejected(invoices, "Failed to fetch invoices")
    /\ lastAction' = Action("fetchInvoices.rejected", {"invoices/fetchInvoices/rejected"},
                          {}, "none")
    /\ UNCHANGED <<ocr, upload, detail, db, route, engine>>
    /\ UNCHANGED authVars

FetchInvoiceByIdFulfilled(r) ==
    /\ NoClick
    /\ r \in net /\ r.kind = "fetchById"
    /\ r.token # NULL
    /\ Owns(db.rows, Val(r.id), Val(UserOfToken(r.token)))
    /\ net' = net \ {r}
    /\ LET new == fetchInvoiceByIdFulfilled(invoices, RowById(db.rows, Val(r.id))) IN
         /\ invoices' = new
         /\ detail' = DetailAfter(new, TRUE)
    /\ lastAction' = Action("fetchInvoiceById.fulfilled", {"invoices/fetchInvoiceById/fulfilled"},
                          {}, "none")
    /\ UNCHANGED <<ocr, upload, db, route, engine>>
    /\ UNCHANGED authVars

FetchInvoiceByIdRejected(r) ==
    /\ NoClick
    /\ r \in net /\ r.kind = "fetchById"
    /\ net' = net \ {r}
    /\ invoices' = InvoiceRejected(invoices, "Failed to fetch invoice")
    /\ lastAction' = Action("fetchInvoiceById.rejected", {"invoices/fetchInvoiceById/rejected"},
                          {}, "none")
    /\ UNCHANGED <<ocr, upload, detail, db, route, engine>>
    /\ UNCHANGED authVars

UpdateInvoiceFulfilled(r) ==
    /\ NoClick
    /\ r \in net /\ r.kind = "update"
    /\ r.token # NULL
    /\ Owns(db.rows, Val(r.id), Val(UserOfToken(r.token)))
    /\ net' = net \ {r}
    /\ LET inv == ServerUpdate(RowById(db.rows, Val(r.id)), r.body)
           new == updateInvoiceFulfilled(invoices, inv)
           replaced == /\ invoices.currentInvoice # NULL
                       /\ Val(invoices.currentInvoice).id = inv.id
       IN /\ db' = [db EXCEPT !.rows = [i \in DOMAIN @ |->
                                          IF @[i].id = Val(r.id) THEN inv ELSE @[i]]]
          /\ invoices' = new
          /\ detail' = SavingDone(DetailAfter(new, replaced), r)
    /\ lastAction' = Action("updateInvoice.fulfilled", {"invoices/updateInvoice/fulfilled"},
                          {}, "success")
    /\ UNCHANGED <<ocr, upload, route, engine>>
    /\ UNCHANGED authVars

UpdateInvoiceRejected(r) ==
    /\ NoClick
    /\ r \in net /\ r.kind = "update"
    /\ net' = net \ {r}
    /\ invoices' = InvoiceRejected(invoices, "Failed to update invoice")
    /\ detail' = SavingDone(detail, r)
    /\ lastAction' = Action("updateInvoice.rejected", {"invoices/updateInvoice/rejected"},
                          {}, "error")
    /\ UNCHANGED <<ocr, upload, db, route, engine>>
    /\ UNCHANGED authVars

----------------------------------------------------------------------------
(* Sessions: the documents the browser loads, the dashboard, the login and *)
(* signup pages, the navbar's logout, and the backend's answers to them    *)

\* a new document: the store is created again from localStorage, every
\* page's state is gone and the requests of the old document are abandoned
FreshDocument ==
    /\ auth' = AuthInitialState(storage)
    /\ invoices' = InvoiceInitialState
    /\ ocr' = OcrInitialState
    /\ upload' = UploadInitialState
    /\ detail' = DetailInitialState("current")
    /\ net' = {}
    /\ guard' = GuardInitialState

\* the user opens a page by its URL
OpenUrl(page, id, variant) ==
    /\ SessionClick
    /\ FreshDocument
    /\ route' = GoTo(page, id, variant)
    /\ lastAction' = Action("load", {}, {}, "none")
    /\ UNCHANGED <<db, engine, storage, accounts, faults>>

\* window.location.href = '/login' was assigned: the document is about to
\* be replaced
Reload ==
    [page |-> "reload", id |-> NULL, variant |-> "current",
     inst |-> route.inst + 1, mounted |-> FALSE]

\* the response interceptor on a 401: both tokens removed, /login loaded
Intercept401(w) ==
    [w EXCEPT !.storage = RemoveTokens(w.storage), !.route = Reload,
              !.guard = GuardInitialState, !.net = {}]

LoadLoginDocument ==
    /\ NoClick
    /\ route.page = "reload"
    /\ FreshDocument
    /\ route' = GoTo("login", NULL, "current")
    /\ lastAction' = Action("load", {}, {}, "none")
    /\ UNCHANGED <<db, engine, storage, accounts, faults>>

\* navbar: Dashboard
OpenDashboard ==
    /\ SessionClick
    /\ NavbarShown
    /\ route' = GoTo("home", NULL, "current")
    /\ guard' = GuardInitialState
    /\ lastAction' = Action("navigate", {}, {}, "none")
    /\ UNCHANGED <<ocr, invoices, upload, detail, net, db, engine>>
    /\ UNCHANGED <<auth, storage, accounts, faults>>

\* the links between the login and the signup form
OpenSignupPage ==
    /\ SessionClick
    /\ route.page = "login" /\ ChildrenShown
    /\ route' = GoTo("signup", NULL, "current")
    /\ guard' = GuardInitialState
    /\ lastAction' = Action("navigate", {}, {}, "none")
    /\ UNCHANGED <<ocr, invoices, upload, detail, net, db, engine>>
    /\ UNCHANGED <<auth, storage, accounts, faults>>

OpenLoginPage ==
    /\ SessionClick
    /\ route.page = "signup" /\ ChildrenShown
    /\ route' = GoTo("login", NULL, "current")
    /\ guard' = GuardInitialState
    /\ lastAction' = Action("navigate", {}, {}, "none")
    /\ UNCHANGED <<ocr, invoices, upload, detail, net, db, engine>>
    /\ UNCHANGED <<auth, storage, accounts, faults>>

\* the two versions of the dashboard the repository holds
HomeVariants == {"current", "legacy"}

\* first render of the dashboard (Home)
MountDashboard ==
    /\ NoClick
    /\ route.page = "home" /\ ~route.mounted
    /\ \E variant \in HomeVariants : Becomes(MountPage(World, variant))
    /\ lastAction' = Action("Home.mount", {}, {}, "none")
    /\ UNCHANGED <<ocr, upload, detail, db, engine, accounts, faults>>

\* first render of the login page (LoginForm)
MountLoginPage ==
    /\ NoClick
    /\ route.page = "login" /\ ~route.mounted
    /\ Becomes(MountPage(World, "current"))
    /\ lastAction' = Action("LoginForm.mount", {}, {}, "none")
    /\ UNCHANGED <<ocr, upload, detail, db, engine, accounts, faults>>

\* first render of the signup page
MountSignupPage ==
    /\ NoClick
    /\ route.page = "signup" /\ ~route.mounted
    /\ Becomes(MountPage(World, "current"))
    /\ lastAction' = Action("SignupForm.mount", {}, {}, "none")
    /\ UNCHANGED <<ocr, upload, detail, db, engine, accounts, faults>>

AuthRequest(w, kind, body) ==
    [kind |-> kind, id |-> NULL, body |-> body, inst |-> w.route.inst,
     token |-> getStoredToken(w.storage)]

\* what the forms may hold: the login form the two users' emails and
\* passwords, the signup form user B's data with passwords of 5 and 6
\* characters
EmailInputs == {"", UserA, UserB}
PasswordInputs == {<<>>, Test123, Test12}
SignupEmailInputs == {"", UserB}
SignupPasswordInputs == {<<>>, Test1, Test12}
NameInputs == {<<>>, TestUser}

\* the login form's submit
handleSignIn(email, password) ==
    /\ SessionClick
    /\ route.page = "login" /\ ChildrenShown
    /\ IF email = "" \/ password = <<>>
       THEN /\ lastAction' = Action("handleSignIn", {}, {}, "error")
            /\ UNCHANGED <<auth, invoices, net, route, guard, storage>>
       ELSE /\ Becomes(RunEffects(
                 [World EXCEPT
                    !.auth = loginPending(auth),
                    !.net = net \cup {AuthRequest(World, "login",
                               [email |-> email, password |-> password])}],
                 auth))
            /\ lastAction' = Action("handleSignIn", {"auth/login/pending"},
                                    {"login"}, "none")
    /\ UNCHANGED <<ocr, upload, detail, db, engine, accounts, faults>>

SignupFormError_Mutant(fullName, email, password, confirmPassword, agreeToTerms) ==
    \/ fullName = <<>> \/ email = "" \/ password = <<>> \/ confirmPassword = <<>>
    \/ password # confirmPassword
    \/ Len(password) < 5
    \/ ~agreeToTerms

\* handleCreateAccount's validations: a field is empty, the passwords
\* differ, the password is shorter than 6, or the terms are not agreed to
SignupFormError(fullName, email, password, confirmPassword, agreeToTerms) ==
    \/ fullName = <<>> \/ email = "" \/ password = <<>> \/ confirmPassword = <<>>
    \/ password # confirmPassword
    \/ Len(password) < 6
    \/ ~agreeToTerms

\* the signup form's submit
handleCreateAccount(fullName, email, password, confirmPassword, agreeToTerms) ==
    /\ SessionClick
    /\ route.page = "signup" /\ ChildrenShown
    /\ IF SignupFormError(fullName, email, password, confirmPassword, agreeToTerms)
       THEN /\ lastAction' = Action("handleCreateAccount", {}, {}, "error")
            /\ UNCHANGED <<auth, invoices, net, route, guard, storage>>
       ELSE /\ Becomes(RunEffects(
                 [World EXCEPT
                    !.auth = signupPending(auth),
                    !.net = net \cup {AuthRequest(World, "signup",
                               [full_name |-> fullName, email |-> email,
                                password |-> password])}],
                 auth))
            /\ lastAction' = Action("handleCreateAccount", {"auth/signup/pending"},
                                    {"signup"}, "none")
    /\ UNCHANGED <<ocr, upload, detail, db, engine, accounts, faults>>

\* the navbar's Logout button
handleLogout ==
    /\ SessionClick
    /\ NavbarShown /\ route.mounted
    /\ Becomes(RunEffects(
          [World EXCEPT !.auth = logoutPending(auth),
                        !.net = net \cup {AuthRequest(World, "logout", NoBody)}],
          auth))
    /\ lastAction' = Action("handleLogout", {"auth/logout/pending"},
                            {"logout"}, "none")
    /\ UNCHANGED <<ocr, upload, detail, db, engine, accounts, faults>>

\* a request is lost on the network
Fault == faults < MaxFaults /\ faults' = faults + 1

NoFault == UNCHANGED faults

Status401 == Some("Request failed with status code 401")
Status400 == Some("Request failed with status code 400")
NetworkError == Some("Network Error")

HasAccount(email, password) ==
    \E a \in accounts : a.email = email /\ a.password = password

AccountOf(email) == CHOOSE a \in accounts : a.email = email

\* POST /api/auth/login answered with the tokens: login() stores them, the
\* store takes them, handleSignIn goes on to fetch the user, and the login
\* page's effects see an authenticated store
LoginFulfilled(r) ==
    /\ NoClick /\ NoFault
    /\ r \in net /\ r.kind = "login"
    /\ HasAccount(r.body.email, r.body.password)
    /\ LET response == TokenResponse(r.body.email)
           w1 == [World EXCEPT !.storage = StoreTokens(storage, response),
                               !.auth = loginFulfilled(auth, response),
                               !.net = net \ {r}]
           w2 == DispatchFetchCurrentUser(w1, "handleSignIn")
       IN Becomes(RunEffects(w2, auth))
    /\ lastAction' = Action("login.fulfilled",
                            {"auth/login/fulfilled", "auth/fetchCurrentUser/pending"},
                            {"me"}, "none")
    /\ UNCHANGED <<ocr, upload, detail, db, engine, accounts>>

\* the login failed: wrong credentials are answered 401, which the
\* interceptor turns into a reload of /login; or the request was lost
LoginRejected(r, message) ==
    /\ NoClick
    /\ r \in net /\ r.kind = "login"
    /\ IF message = Status401
       THEN ~HasAccount(r.body.email, r.body.password) /\ NoFault
       ELSE message = NetworkError /\ Fault
    /\ LET w1 == [World EXCEPT !.auth = loginRejected(auth, message),
                               !.net = net \ {r}]
       IN Becomes(IF message = Status401 THEN Intercept401(w1)
                  ELSE RunEffects(w1, auth))
    /\ lastAction' = Action("login.rejected", {"auth/login/rejected"}, {}, "error")
    /\ UNCHANGED <<ocr, upload, detail, db, engine, accounts>>

\* what the dispatcher of fetchCurrentUser does once it is answered
AfterFetchCurrentUser(w, body, ok) ==
    CASE body.origin = "checkAuth" ->
           PushTo(w, Redirect(body.requireAuth, body.hasToken, body.authState, FALSE))
      [] body.origin = "handleSignIn" -> PushTo(w, Some("home"))
      [] OTHER -> w

\* GET /api/auth/me answered with the token's user
FetchCurrentUserFulfilled(r) ==
    /\ NoClick /\ NoFault
    /\ r \in net /\ r.kind = "me"
    /\ TokenAccepted(r.token)
    /\ LET user == User(AccountOf(Val(UserOfToken(r.token))))
           w1 == [World EXCEPT !.auth = fetchCurrentUserFulfilled(auth, user),
                               !.net = net \ {r}]
       IN Becomes(AfterFetchCurrentUser(RunEffects(w1, auth), r.body, TRUE))
    /\ lastAction' = Action("fetchCurrentUser.fulfilled",
                            {"auth/fetchCurrentUser/fulfilled"}, {},
                            IF r.body.origin = "handleSignIn" THEN "success" ELSE "none")
    /\ UNCHANGED <<ocr, upload, detail, db, engine, accounts>>

\* GET /api/auth/me lost on the network
FetchCurrentUserRejected(r) ==
    /\ NoClick /\ Fault
    /\ r \in net /\ r.kind = "me"
    /\ LET w1 == [World EXCEPT
                    !.auth = fetchCurrentUserRejected(auth, NetworkError),
                    !.net = net \ {r}]
       IN Becomes(AfterFetchCurrentUser(RunEffects(w1, auth), r.body, FALSE))
    /\ lastAction' = Action("fetchCurrentUser.rejected",
                            {"auth/fetchCurrentUser/rejected"}, {},
                            IF r.body.origin = "handleSignIn" THEN "error" ELSE "none")
    /\ UNCHANGED <<ocr, upload, detail, db, engine, accounts>>

\* a request that carried no token, or a token of no user, is answered 401:
\* its thunk is rejected and the interceptor reloads /login
Unauthorized(r) ==
    /\ NoClick /\ NoFault
    /\ r \in net /\ r.kind \in {"me", "list", "fetchById"}
    /\ ~TokenAccepted(r.token)
    /\ Becomes(Intercept401(
          [World EXCEPT
             !.auth = IF r.kind = "me"
                      THEN fetchCurrentUserRejected(auth, Status401) ELSE auth,
             !.invoices = IF r.kind = "me" THEN invoices
                          ELSE InvoiceRejected(invoices,
                                               "Request failed with status code 401")]))
    /\ lastAction' = Action("unauthorized", {}, {}, "none")
    /\ UNCHANGED <<ocr, upload, detail, db, engine, accounts>>

\* POST /api/auth/signup answered with the new user: the account exists
\* from now on, and handleCreateAccount sends the user to /login
SignupFulfilled(r) ==
    /\ NoClick /\ NoFault
    /\ r \in net /\ r.kind = "signup"
    /\ \A a \in accounts : a.email # r.body.email
    /\ accounts' = accounts \cup
          {Account(r.body.email, r.body.full_name, r.body.password)}
    /\ LET w1 == [World EXCEPT !.auth = signupFulfilled(auth), !.net = net \ {r}]
       IN Becomes(PushTo(RunEffects(w1, auth), Some("login")))
    /\ lastAction' = Action("signup.fulfilled", {"auth/signup/fulfilled"}, {}, "success")
    /\ UNCHANGED <<ocr, upload, detail, db, engine>>

\* the signup failed: the email is registered already, or the request was lost
SignupRejected(r, message) ==
    /\ NoClick
    /\ r \in net /\ r.kind = "signup"
    /\ IF message = Status400
       THEN (\E a \in accounts : a.email = r.body.email) /\ NoFault
       ELSE message = NetworkError /\ Fault
    /\ LET w1 == [World EXCEPT !.auth = signupRejected(auth, message),
                               !.net = net \ {r}]
       IN Becomes(RunEffects(w1, auth))
    /\ lastAction' = Action("signup.rejected", {"auth/signup/rejected"}, {}, "error")
    /\ UNCHANGED <<ocr, upload, detail, db, engine, accounts>>

\* POST /api/auth/logout answered (ok) or lost: logout() swallows the
\* failure and removes both tokens, logoutAsync is fulfilled, the page's
\* effects see the cleared store, and handleLogout sends the user to /login
LogoutSettled(r, ok) ==
    /\ NoClick
    /\ r \in net /\ r.kind = "logout"
    /\ IF ok THEN NoFault ELSE Fault
    /\ LET w1 == [World EXCEPT !.storage = RemoveTokens(storage),
                               !.auth = logoutFulfilled(auth),
                               !.net = net \ {r}]
       IN Becomes(PushTo(RunEffects(w1, auth), Some("login")))
    /\ lastAction' = Action("logout.fulfilled", {"auth/logout/fulfilled"}, {}, "success")
    /\ UNCHANGED <<ocr, upload, detail, db, engine, accounts>>

----------------------------------------------------------------------------
(* The invoice field extraction engine (backend; its code is not part of   *)
(* the client sources, the definitions follow the engine's design).        *)
(* A document is the recognized text after the pattern library has typed   *)
(* its lines: free text, the invoice number line, item lines with their    *)
(* numeric tokens, and labelled amounts.                                   *)

Digits == {"0", "1", "2", "3", "4", "5", "6", "7", "8", "9"}

PhoneSeparators == {"-", " ", "(", ")", "+", "."}

MinPhoneDigits == 7
MaxPhoneDigits == 15

CountIn(line, chars) == Cardinality({i \in DOMAIN line : line[i] \in chars})

\* the email pattern: one "@", a local part, and a dotted domain
MatchesEmail(line) ==
    /\ CountIn(line, {"@"}) = 1
    /\ CountIn(line, {" ", "\t"}) = 0
    /\ LET at == CHOOSE i \in DOMAIN line : line[i] = "@" IN
         /\ at > 1
         /\ \E dot \in (at + 2)..(Len(line) - 1) : line[dot] = "."

\* the phone pattern: digit groups with optional separators, 7 to 15 digits
MatchesPhone(line) ==
    /\ \A i \in DOMAIN line : line[i] \in Digits \cup PhoneSeparators
    /\ CountIn(line, Digits) >= MinPhoneDigits
    /\ CountIn(line, Digits) <= MaxPhoneDigits

\* every line keeps its text; the typed lines also carry what the pattern
\* library read in them
TextLine(text) == [kind |-> "text", text |-> text]
NumberLine(value) == [kind |-> "invoice_number", text |-> value, value |-> value]
ItemLine(desc, nums) == [kind |-> "item", text |-> desc, desc |-> desc, nums |-> nums]
AmountLine(label, value) ==
    [kind |-> "amount", text |-> <<"A", "m", "t">>, label |-> label, value |-> value]

\* Tokenizer: lines trimmed, blank lines dropped
RECURSIVE Tokenize(_)
Tokenize(raw) ==
    IF raw = <<>> THEN <<>>
    ELSE LET line == Head(raw) IN
         IF line.kind = "text"
         THEN IF Trim(line.text) = <<>>
              THEN Tokenize(Tail(raw))
              ELSE <<TextLine(Trim(line.text))>> \o Tokenize(Tail(raw))
         ELSE <<line>> \o Tokenize(Tail(raw))

\* index of the first line of one of the kinds, Len + 1 when there is none
FirstOfKind(lines, kinds) ==
    IF \E i \in DOMAIN lines : lines[i].kind \in kinds
    THEN CHOOSE i \in DOMAIN lines :
             /\ lines[i].kind \in kinds
             /\ \A j \in 1..(i - 1) : lines[j].kind \notin kinds
    ELSE Len(lines) + 1

HeaderEnd == {"invoice_number", "date"}

\* the header block: the lines before the first invoice number or date
HeaderBlock(lines) ==
    [i \in 1..(FirstOfKind(lines, HeaderEnd) - 1) |-> lines[i].text]

IsContact(text) == MatchesEmail(text) \/ MatchesPhone(text)

IsName(text) == ~IsContact(text)

Matches(pattern, text) ==
    CASE pattern = "email" -> MatchesEmail(text)
      [] pattern = "phone" -> MatchesPhone(text)
      [] pattern = "name" -> IsName(text)

\* the first line of the block that matches the pattern, 0 when none does
FirstIndex(block, pattern) ==
    IF \E i \in DOMAIN block : Matches(pattern, block[i])
    THEN CHOOSE i \in DOMAIN block :
             /\ Matches(pattern, block[i])
             /\ \A j \in 1..(i - 1) : ~Matches(pattern, block[j])
    ELSE 0

AddressSeparator == <<",", " ">>

RECURSIVE JoinLines(_)
JoinLines(texts) ==
    IF texts = <<>> THEN <<>>
    ELSE IF Len(texts) = 1 THEN texts[1]
    ELSE texts[1] \o AddressSeparator \o JoinLines(Tail(texts))

RECURSIVE SelectNames(_)
SelectNames(texts) ==
    IF texts = <<>> THEN <<>>
    ELSE IF IsName(Head(texts)) THEN <<Head(texts)>> \o SelectNames(Tail(texts))
    ELSE SelectNames(Tail(texts))

UpperCase ==
    {"A", "B", "C", "D", "E", "F", "G", "H", "I", "J", "K", "L", "M",
     "N", "O", "P", "Q", "R", "S", "T", "U", "V", "W", "X", "Y", "Z"}

\* a vendor-name-like line outside the header block: title case, no contact
VendorLike(lines) ==
    LET start == FirstOfKind(lines, HeaderEnd)
        found == {i \in start..Len(lines) :
                     /\ lines[i].kind = "text"
                     /\ IsName(lines[i].text)
                     /\ lines[i].text[1] \in UpperCase}
    IN IF found = {} THEN NULL
       ELSE Some(lines[CHOOSE i \in found : \A j \in found : i <= j].text)

\* Vendor/Header Resolver
ResolveHeader(lines) ==
    LET block == HeaderBlock(lines)
        name == FirstIndex(block, "name")
        mail == FirstIndex(block, "email")
        phone == FirstIndex(block, "phone")
        rest == IF name = 0 THEN <<>>
                ELSE SelectNames(SubSeq(block, name + 1, Len(block)))
        vendor == IF name # 0 THEN Some(block[name]) ELSE VendorLike(lines)
    IN [vendor |-> vendor,
        vendor_address |-> IF rest = <<>> THEN NULL ELSE Some(JoinLines(rest)),
        vendor_email |-> IF mail = 0 THEN NULL ELSE Some(block[mail]),
        vendor_phone |-> IF phone = 0 THEN NULL ELSE Some(block[phone]),
        flags |-> IF vendor = NULL THEN {"AmbiguousVendor"} ELSE {}]

Abs(x) == IF x < 0 THEN -x ELSE x

\* two amounts (cents) agree within 0.01 or 1%, whichever is larger
WithinTolerance(a, b) == 100 * Abs(a - b) <= (IF Abs(b) > 100 THEN Abs(b) ELSE 100)

\* one row of the table from an item line's numeric tokens
ParseRow(line, index) ==
    LET n == Len(line.nums)
        lineTotal == line.nums[n]
        quantity == IF n >= 3 THEN line.nums[1] ELSE 1
        unitPrice == IF n >= 2 THEN line.nums[n - 1] ELSE lineTotal \div quantity
    IN [description |-> line.desc, quantity |-> quantity,
        unitPrice |-> unitPrice, lineTotal |-> lineTotal,
        sourceLineIndex |-> index,
        mismatch |-> ~WithinTolerance(quantity * unitPrice, lineTotal)]

RECURSIVE ParseRows(_, _, _)
ParseRows(lines, i, end) ==
    IF i >= end THEN <<>>
    ELSE IF lines[i].kind = "item" /\ Len(lines[i].nums) >= 1
         THEN <<ParseRow(lines[i], i)>> \o ParseRows(lines, i + 1, end)
         ELSE ParseRows(lines, i + 1, end)

\* Line-Item Table Detector: rows between the header block and the first
\* totals line
ResolveItems(lines) ==
    LET rows == ParseRows(lines, Len(HeaderBlock(lines)) + 1,
                          FirstOfKind(lines, {"amount"}))
    IN [items |-> rows,
        flags |-> (IF rows = <<>> THEN {"NoLineItemsDetected"} ELSE {})
                  \cup (IF \E i \in DOMAIN rows : rows[i].mismatch
                        THEN {"AmountMismatch"} ELSE {})]

\* the recognized amount of a label: the first line carrying it
Recognized(lines, label) ==
    LET found == {i \in DOMAIN lines :
                     lines[i].kind = "amount" /\ lines[i].label = label}
    IN IF found = {} THEN NULL
       ELSE Some(lines[CHOOSE i \in found : \A j \in found : i <= j].value)

Known(t) == Cardinality({f \in {"subtotal", "tax", "discount", "total"} : t[f] # NULL})

Solve_Mutant(t, missing) ==
    CASE missing = "total" -> Val(t.subtotal) + Val(t.tax) + Val(t.discount)
      [] missing = "subtotal" -> Val(t.total) - Val(t.tax) - Val(t.discount)
      [] missing = "tax" -> Val(t.total) - Val(t.subtotal) - Val(t.discount)
      [] missing = "discount" -> Val(t.total) - Val(t.subtotal) - Val(t.tax)

\* the term the other three determine: total = subtotal + tax - discount
Solve(t, missing) ==
    CASE missing = "total" -> Val(t.subtotal) + Val(t.tax) - Val(t.discount)
      [] missing = "subtotal" -> Val(t.total) - Val(t.tax) + Val(t.discount)
      [] missing = "tax" -> Val(t.total) - Val(t.subtotal) + Val(t.discount)
      [] missing = "discount" -> Val(t.subtotal) + Val(t.tax) - Val(t.total)

\* Totals Reconciler
Reconcile(t) ==
    IF Known(t) = 4
    THEN IF WithinTolerance(Val(t.total), Solve(t, "total"))
         THEN t @@ [flags |-> {}]
         ELSE [t EXCEPT !.total = Some(Solve(t, "total"))]
              @@ [flags |-> {"AmountMismatch"}]
    ELSE IF Known(t) = 3
    THEN LET missing == CHOOSE f \in {"subtotal", "tax", "discount", "total"} :
                            t[f] = NULL
         IN [t EXCEPT ![missing] = Some(Solve(t, missing))] @@ [flags |-> {}]
    ELSE t @@ [flags |-> {"MissingTotal"}]

ResolveTotals(lines) ==
    Reconcile([subtotal |-> Recognized(lines, "subtotal"),
               tax |-> Recognized(lines, "tax"),
               discount |-> Recognized(lines, "discount"),
               total |-> Recognized(lines, "total")])

InvoiceNumber(lines) ==
    LET i == FirstOfKind(lines, {"invoice_number"}) IN
    IF i <= Len(lines) THEN Some(lines[i].value) ELSE NULL

EngineStates ==
    <<"Start", "HeaderResolved", "ItemsResolved", "TotalsResolved", "Merged", "Done">>

EngineIdle ==
    [state |-> "Idle", raw |-> <<>>, lines |-> <<>>, header |-> NULL,
     items |-> NULL, totals |-> NULL, result |-> NULL]

\* extract(rawText): the pipeline is entered with the tokenized lines
EngineStart(raw) ==
    [EngineIdle EXCEPT !.state = "Start", !.raw = raw, !.lines = Tokenize(raw)]

\* Orchestrator: the invoice merged from the three resolvers' results
Merge(e) ==
    [vendor |-> Val(e.header).vendor,
     vendor_address |-> Val(e.header).vendor_address,
     vendor_email |-> Val(e.header).vendor_email,
     vendor_phone |-> Val(e.header).vendor_phone,
     invoice_number |-> InvoiceNumber(e.lines),
     items |-> Val(e.items).items,
     subtotal |-> Val(e.totals).subtotal,
     tax |-> Val(e.totals).tax,
     discount |-> Val(e.totals).discount,
     total |-> Val(e.totals).total,
     flags |-> Val(e.header).flags \cup Val(e.items).flags \cup Val(e.totals).flags]

EngineStep_Mutant(e) ==
    CASE e.state = "Start" ->
           [e EXCEPT !.state = "HeaderResolved",
                     !.header = Some(ResolveHeader(e.lines))]
      [] e.state = "HeaderResolved" ->
           [e EXCEPT !.state = IF e.lines = <<>> THEN "Done" ELSE "ItemsResolved",
                     !.items = Some(ResolveItems(e.lines))]
      [] e.state = "ItemsResolved" ->
           [e EXCEPT !.state = "TotalsResolved",
                     !.totals = Some(ResolveTotals(e.lines))]
      [] e.state = "TotalsResolved" ->
           [e EXCEPT !.state = "Merged", !.result = Some(Merge(e))]
      [] e.state = "Merged" -> [e EXCEPT !.state = "Done"]

\* one step of the Extraction Orchestrator
EngineStep(e) ==
    CASE e.state = "Start" ->
           [e EXCEPT !.state = "HeaderResolved",
                     !.header = Some(ResolveHeader(e.lines))]
      [] e.state = "HeaderResolved" ->
           [e EXCEPT !.state = "ItemsResolved",
                     !.items = Some(ResolveItems(e.lines))]
      [] e.state = "ItemsResolved" ->
           [e EXCEPT !.state = "TotalsResolved",
                     !.totals = Some(ResolveTotals(e.lines))]
      [] e.state = "TotalsResolved" ->
           [e EXCEPT !.state = "Merged", !.result = Some(Merge(e))]
      [] e.state = "Merged" -> [e EXCEPT !.state = "Done"]

\* the engine's invoice as the upload endpoint returns it
EngineFields(result) ==
    [vendor |-> result.vendor, vendor_address |-> result.vendor_address,
     vendor_email |-> result.vendor_email, vendor_phone |-> result.vendor_phone,
     invoice_number |-> result.invoice_number,
     invoice_date |-> NULL, date |-> NULL, due_date |-> NULL,
     bill_to_name |-> NULL, bill_to_address |-> NULL,
     total |-> result.total, subtotal |-> result.subtotal, tax |-> result.tax,
     taxAmount |-> NULL, discount |-> result.discount, currency |-> NULL,
     items |-> Some([i \in DOMAIN result.items |->
                       Item(Some(result.items[i].description),
                            Some(result.items[i].quantity), NULL,
                            Some(result.items[i].unitPrice), NULL,
                            Some(result.items[i].lineTotal), NULL)]),
     purchase_order |-> NULL]

EngineResponse(result) ==
    [success |-> TRUE, filename |-> "scan.png", image_path |-> NULL,
     raw_text |-> "raw", extracted_fields |-> EngineFields(result)]

----------------------------------------------------------------------------
(* Documents handed to the engine *)

Blank == <<" ">>
ThankYou == <<"T", "h", "a", "n", "k", "s">>
InvNumber == <<"I", "N", "V", "-", "2", "0", "2", "4", "-", "0", "0", "1">>

HeaderVocabulary == {AcmeCo, OakSt, AcmeMail, AcmePhone, Suite5, Blank}

\* header blocks: up to MaxHeaderLines different lines in any order
Headers ==
    {h \in UNION {[1..n -> HeaderVocabulary] : n \in 0..MaxHeaderLines} :
        \A i, j \in DOMAIN h : i # j => h[i] # h[j]}

TextLines(h) == [i \in DOMAIN h |-> TextLine(h[i])]

ExampleHeader == <<AcmeCo, OakSt, AcmeMail, AcmePhone>>

ItemLineCases ==
    {<<>>,
     <<ItemLine(Widget, <<2, 1000, 2000>>)>>,
     <<ItemLine(Widget, <<2000>>)>>,
     <<ItemLine(Widget, <<2, 1000, 2500>>)>>}

OptionalAmount(label, values) ==
    {<<>>} \cup {<<AmountLine(label, v)>> : v \in values}

TotalsLineCases ==
    {s \o t \o d \o g :
        s \in OptionalAmount("subtotal", {2000}),
        t \in OptionalAmount("tax", {200}),
        d \in OptionalAmount("discount", {0, 100}),
        g \in OptionalAmount("total", {2200, 2100})}

Documents ==
    {<<>>}
    \cup {TextLines(h) \o <<NumberLine(InvNumber)>>
          \o <<ItemLine(Widget, <<2, 1000, 2000>>)>>
          \o <<AmountLine("subtotal", 2000), AmountLine("tax", 200),
               AmountLine("total", 2200)>> : h \in Headers}
    \cup {TextLines(ExampleHeader) \o n \o i \o t \o f :
            n \in {<<>>, <<NumberLine(InvNumber)>>},
            i \in ItemLineCases,
            t \in TotalsLineCases,
            f \in {<<>>, <<TextLine(ThankYou)>>}}
    \cup {<<NumberLine(InvNumber)>> \o f : f \in {<<>>, <<TextLine(ThankYou)>>}}

----------------------------------------------------------------------------
(* The engine at work: an upload is in flight, the backend extracts the    *)
(* document and answers, and the user saves the result                     *)

UploadedFile == CHOOSE f \in Files : f.name = "scan.png"

InitEngine ==
    /\ SessionOfA
    /\ ocr = processInvoiceImagePending(OcrInitialState)
    /\ invoices = InvoiceInitialState
    /\ upload = [selectedFile |-> Some(UploadedFile), showPreview |-> FALSE]
    /\ detail = DetailInitialState("current")
    /\ route = [page |-> "upload", id |-> NULL, variant |-> "current",
                inst |-> 1, mounted |-> TRUE]
    /\ net = {[kind |-> "ocr", id |-> NULL, body |-> UploadedFile, inst |-> 1,
              token |-> getStoredToken(storage)]}
    /\ db = DbInitialState
    /\ clicks = 2
    /\ engine = EngineIdle
    /\ lastAction = Action("handleFileSelect", {"ocr/clearOCRResult", "ocr/processInvoiceImage/pending"},
                          {"ocr"}, "none")

\* the upload endpoint hands the recognized text to extract()
EngineExtract(raw) ==
    /\ engine.state = "Idle"
    /\ \E r \in net : r.kind = "ocr"
    /\ engine' = EngineStart(raw)
    /\ UNCHANGED <<ocr, invoices, upload, detail, net, db, route, clicks, lastAction>>
    /\ UNCHANGED authVars

EngineAdvance ==
    /\ engine.state \notin {"Idle", "Done"}
    /\ engine' = EngineStep(engine)
    /\ UNCHANGED <<ocr, invoices, upload, detail, net, db, route, clicks, lastAction>>
    /\ UNCHANGED authVars

\* the upload endpoint answers with the engine's invoice
EngineDeliver ==
    /\ engine.state = "Done"
    /\ \E r \in net : ProcessInvoiceImageFulfilled(r, EngineResponse(Val(engine.result)))

NextEngine ==
    \/ \E raw \in Documents : EngineExtract(raw)
    \/ EngineAdvance
    \/ EngineDeliver
    \/ handleSaveInvoice
    \/ \E r \in net : CreateInvoiceFulfilled(r)

SpecEngine == InitEngine /\ [][NextEngine]_vars

\* the documents the pipeline is run to its end on: the example header cut
\* after each of its lines, with and without number, items and totals
PipelineDocuments ==
    {TextLines(SubSeq(ExampleHeader, 1, k)) \o n \o i \o t :
        k \in 0..Len(ExampleHeader),
        n \in {<<>>, <<NumberLine(InvNumber)>>},
        i \in ItemLineCases,
        t \in {<<>>, <<AmountLine("subtotal", 2000), AmountLine("tax", 200),
                       AmountLine("total", 2200)>>}}

NextPipeline ==
    \/ \E raw \in PipelineDocuments : EngineExtract(raw)
    \/ EngineAdvance
    \/ EngineDeliver
    \/ handleSaveInvoice

\* extract() is synchronous code: once called it runs to its end
FairSpecEngine ==
    InitEngine /\ [][NextPipeline]_vars /\ WF_vars(EngineAdvance)

----------------------------------------------------------------------------
(* The upload flow: from a fresh session to the record's creation *)

HomeRoute ==
    [page |-> "home", id |-> NULL, variant |-> "current", inst |-> 0,
     mounted |-> TRUE]

InitUpload ==
    /\ SessionOfA
    /\ ocr = OcrInitialState
    /\ invoices = InvoiceInitialState
    /\ upload = UploadInitialState
    /\ detail = DetailInitialState("current")
    /\ net = {}
    /\ db = DbInitialState
    /\ route = HomeRoute
    /\ clicks = 0
    /\ engine = EngineIdle
    /\ lastAction = Action("init", {},
                          {}, "none")

NextUpload ==
    \/ OpenUploadPage
    \/ MountUploadPage
    \/ \E file \in Files : handleFileSelect(file)
    \/ \E r \in net, response \in OCRResponses :
          ProcessInvoiceImageFulfilled(r, response)
    \/ \E r \in net : ProcessInvoiceImageRejected(r)
    \/ ClearPreview
    \/ ClearOcrError
    \/ handleSaveInvoice
    \/ \E r \in net : CreateInvoiceFulfilled(r)
    \/ \E r \in net : CreateInvoiceRejected(r)
    \/ \E r \in net : FetchInvoicesFulfilled(r)
    \/ \E r \in net : FetchInvoicesRejected(r)

SpecUpload == InitUpload /\ [][NextUpload]_vars

----------------------------------------------------------------------------
(* The detail flow: a session that opens records created by the upload flow *)

SeedResponses ==
    {[success |-> TRUE, filename |-> "scan.png", image_path |-> NULL,
      raw_text |-> "raw", extracted_fields |-> f] :
        f \in {BaseFields,
               [BaseFields EXCEPT !.subtotal = NULL, !.tax = NULL,
                                  !.discount = NULL, !.total = NULL,
                                  !.items = NULL]}}

SeedRows ==
    {rows \in UNION {[1..n -> SeedResponses] : n \in 1..MaxInvoices} : TRUE}

InitDetail ==
    /\ SessionOfA
    /\ ocr = OcrInitialState
    /\ invoices = InvoiceInitialState
    /\ upload = UploadInitialState
    /\ detail = DetailInitialState("current")
    /\ net = {}
    /\ \E seed \in SeedRows :
          db = [rows |-> [i \in DOMAIN seed |->
                            ServerCreate(InvoiceData(seed[i]), i, UserA)],
                nextId |-> Len(seed) + 1]
    /\ route = HomeRoute
    /\ clicks = 0
    /\ engine = EngineIdle
    /\ lastAction = Action("init", {},
                          {}, "none")

NextDetail ==
    \/ \E id \in {NULL} \cup {Some(i) : i \in 1..MaxInvoices}, variant \in Variants :
          OpenDetailPage(id, variant)
    \/ MountDetailPage
    \/ \E value \in StatusInputs : handleInputChange("status", value)
    \/ \E field \in {"subtotal", "total"}, value \in AmountInputs :
          handleInputChange(field, Some(value))
    \/ \E value \in TextInputs : handleInputChange("vendor_address", value)
    \/ addLineItem
    \/ \E i \in DOMAIN detail.lineItems : removeLineItem(detail.lineItems[i].id)
    \/ \E i \in DOMAIN detail.lineItems, value \in {2} :
          updateLineItem(detail.lineItems[i].id, "qty", value)
    \/ \E i \in DOMAIN detail.lineItems, value \in {700} :
          updateLineItem(detail.lineItems[i].id, "rate", value)
    \/ handleSave
    \/ OpenInvoicesPage
    \/ MountInvoicesPage
    \/ \E r \in net : FetchInvoicesFulfilled(r)
    \/ \E r \in net : FetchInvoicesRejected(r)
    \/ \E r \in net : FetchInvoiceByIdFulfilled(r)
    \/ \E r \in net : FetchInvoiceByIdRejected(r)
    \/ \E r \in net : UpdateInvoiceFulfilled(r)
    \/ \E r \in net : UpdateInvoiceRejected(r)

SpecDetail == InitDetail /\ [][NextDetail]_vars

\* the ids a detail URL may carry: the stored invoices' and the next one,
\* which no invoice has
UrlIds == {Some(i) : i \in 1..(MaxInvoices + 1)}

\* opening one invoice after another, editing and saving
NextReopen ==
    \/ \E id \in UrlIds, variant \in Variants : OpenDetailPage(id, variant)
    \/ MountDetailPage
    \/ \E value \in TextInputs : handleInputChange("vendor_address", value)
    \/ handleSave
    \/ \E r \in net : FetchInvoiceByIdFulfilled(r)
    \/ \E r \in net : FetchInvoiceByIdRejected(r)
    \/ \E r \in net : UpdateInvoiceFulfilled(r)
    \/ \E r \in net : UpdateInvoiceRejected(r)

SpecReopen == InitDetail /\ [][NextReopen]_vars

----------------------------------------------------------------------------
(* Sessions of one browser: a visitor who may sign up and log in, and user *)
(* A who uploaded an invoice, may log out and leave the browser to user B  *)

SeedResponse == CHOOSE r \in SeedResponses : r.extracted_fields = BaseFields

InvoiceOfA == ServerCreate(InvoiceData(SeedResponse), 1, UserA)

AccountB == Account(UserB, TestUser, Test12)

\* a visitor's browser: nothing stored, /login just loaded; user B has no
\* account yet
VisitorSession ==
    /\ accounts = {AccountA}
    /\ storage = StorageEmpty
    /\ auth = AuthInitialState(StorageEmpty)
    /\ guard = GuardInitialState
    /\ ocr = OcrInitialState
    /\ invoices = InvoiceInitialState
    /\ route = [page |-> "login", id |-> NULL, variant |-> "current",
                inst |-> 0, mounted |-> FALSE]

\* user A's browser after an upload was processed and saved and the
\* dashboard opened: the store holds the OCR result, the record as current
\* invoice and the list; user B has an account too
UserSession ==
    /\ accounts = {AccountA, AccountB}
    /\ storage = StoreTokens(StorageEmpty, TokenResponse(UserA))
    /\ auth = SignedIn(AccountA)
    /\ guard = GuardMounted(storage)
    /\ ocr = processInvoiceImageFulfilled(OcrInitialState, SeedResponse, "scan.png")
    /\ invoices = fetchInvoicesFulfilled(
                      createInvoiceFulfilled(InvoiceInitialState, InvoiceOfA),
                      <<InvoiceOfA>>)
    /\ route = HomeRoute

InitAuth ==
    /\ VisitorSession \/ UserSession
    /\ db = [rows |-> <<InvoiceOfA>>, nextId |-> 2]
    /\ upload = UploadInitialState
    /\ detail = DetailInitialState("current")
    /\ net = {}
    /\ clicks = 0
    /\ faults = 0
    /\ engine = EngineIdle
    /\ lastAction = Action("init", {}, {}, "none")

\* signing up, logging in and logging out, on the dashboard and the two
\* public pages
NextAuth ==
    \/ \E page \in {"home", "login", "signup"} : OpenUrl(page, NULL, "current")
    \/ LoadLoginDocument
    \/ OpenDashboard
    \/ OpenSignupPage
    \/ OpenLoginPage
    \/ MountDashboard
    \/ MountLoginPage
    \/ MountSignupPage
    \/ \E email \in EmailInputs, password \in PasswordInputs :
          handleSignIn(email, password)
    \/ \E fullName \in NameInputs, email \in SignupEmailInputs,
          password \in SignupPasswordInputs,
          confirmPassword \in SignupPasswordInputs, agreeToTerms \in BOOLEAN :
          handleCreateAccount(fullName, email, password, confirmPassword,
                              agreeToTerms)
    \/ handleLogout
    \/ \E r \in net : LoginFulfilled(r)
    \/ \E r \in net, message \in {Status401, NetworkError} : LoginRejected(r, message)
    \/ \E r \in net : FetchCurrentUserFulfilled(r)
    \/ \E r \in net : FetchCurrentUserRejected(r)
    \/ \E r \in net : Unauthorized(r)
    \/ \E r \in net : SignupFulfilled(r)
    \/ \E r \in net, message \in {Status400, NetworkError} : SignupRejected(r, message)
    \/ \E r \in net, ok \in BOOLEAN : LogoutSettled(r, ok)
    \/ \E r \in net : FetchInvoicesFulfilled(r)
    \/ \E r \in net : FetchInvoicesRejected(r)

SpecAuth == InitAuth /\ [][NextAuth]_vars

\* opening the routes of the application by their URLs and by the navbar,
\* with and without a session
NextRoutes ==
    \/ \E page \in {"home", "upload", "invoices", "login", "signup"} :
          OpenUrl(page, NULL, "current")
    \/ \E variant \in Variants : OpenUrl("detail", Some(1), variant)
    \/ LoadLoginDocument
    \/ OpenDashboard
    \/ clicks < MaxSessionActions /\ OpenUploadPage
    \/ clicks < MaxSessionActions /\ OpenInvoicesPage
    \/ MountDashboard
    \/ MountLoginPage
    \/ MountSignupPage
    \/ MountUploadPage
    \/ MountInvoicesPage
    \/ MountDetailPage
    \/ handleLogout
    \/ \E r \in net : FetchCurrentUserFulfilled(r)
    \/ \E r \in net : FetchCurrentUserRejected(r)
    \/ \E r \in net : Unauthorized(r)
    \/ \E r \in net, ok \in BOOLEAN : LogoutSettled(r, ok)
    \/ \E r \in net : FetchInvoicesFulfilled(r)
    \/ \E r \in net : FetchInvoicesRejected(r)
    \/ \E r \in net : FetchInvoiceByIdFulfilled(r)
    \/ \E r \in net : FetchInvoiceByIdRejected(r)

SpecRoutes == InitAuth /\ [][NextRoutes]_vars

\* a browser that comes back with tokens in localStorage and loads a
\* protected page: user A's tokens, or tokens the server no longer accepts
StoredEmails == {UserA, UserB}

ProtectedStarts == {"home", "upload", "invoices"}

InitStored ==
    /\ accounts = {AccountA}
    /\ \E email \in StoredEmails :
          storage = StoreTokens(StorageEmpty, TokenResponse(email))
    /\ auth = AuthInitialState(storage)
    /\ guard = GuardInitialState
    /\ ocr = OcrInitialState
    /\ invoices = InvoiceInitialState
    /\ \E page \in ProtectedStarts :
          route = [page |-> page, id |-> NULL, variant |-> "current",
                   inst |-> 0, mounted |-> FALSE]
    /\ db = [rows |-> <<InvoiceOfA>>, nextId |-> 2]
    /\ upload = UploadInitialState
    /\ detail = DetailInitialState("current")
    /\ net = {}
    /\ clicks = 0
    /\ faults = 0
    /\ engine = EngineIdle
    /\ lastAction = Action("load", {}, {}, "none")

\* React commits the page that was navigated to
MountStored ==
    \/ MountDashboard
    \/ MountUploadPage
    \/ MountInvoicesPage
    \/ MountLoginPage

\* a request in flight is answered, or fails
AnswerStored ==
    \/ \E r \in net : FetchCurrentUserFulfilled(r)
    \/ \E r \in net : FetchCurrentUserRejected(r)
    \/ \E r \in net : Unauthorized(r)
    \/ \E r \in net : FetchInvoicesFulfilled(r)
    \/ \E r \in net : FetchInvoicesRejected(r)

NextStored ==
    \/ LoadLoginDocument
    \/ MountStored
    \/ AnswerStored

SpecStored == InitStored /\ [][NextStored]_vars

\* the browser loads the document it was sent to, React commits the page,
\* and every request gets its answer or its failure
FairSpecStored ==
    /\ SpecStored
    /\ WF_vars(LoadLoginDocument)
    /\ WF_vars(MountStored)
    /\ WF_vars(AnswerStored)

----------------------------------------------------------------------------
(* Claims *)

CreateRequests == {r \in net : r.kind = "create"}
UpdateRequests == {r \in net : r.kind = "update"}

AmountFields == {"subtotal", "discount", "total"}

\* C1: a total the extraction left null stays unknown in the record that
\* handleSaveInvoice sends to createInvoice: subtotal, tax, discount and
\* total are null there whenever they are null in the extracted fields, and
\* never a fabricated 0.
C1_NullOverGuess ==
    \A r \in CreateRequests :
        LET extracted == r.body.extracted_fields IN
        /\ \A f \in AmountFields : extracted[f] = NULL => r.body[f] = NULL
        /\ (extracted.tax = NULL /\ extracted.taxAmount = NULL) => r.body.tax = NULL

AllowedStatuses == {"Draft", "Pending Review", "Paid", "Rejected"}

\* C2: the status the client holds for an invoice (the detail form's, once
\* the form is shown) and the status of every create or update request is
\* one of Draft, Pending Review, Paid, Rejected.
C2_StatusAllowed ==
    /\ DetailFormShown => detail.invoiceData.status \in AllowedStatuses
    /\ \A r \in CreateRequests \cup UpdateRequests :
          r.body.status \in AllowedStatuses

\* C3: every record created through the upload flow carries the initial
\* review status "Pending Review": in the create request, in the backend's
\* record and in the store.
C3_InitialStatus ==
    /\ \A r \in CreateRequests : r.body.status = "Pending Review"
    /\ \A i \in DOMAIN db.rows : db.rows[i].status = "Pending Review"
    /\ \A i \in DOMAIN invoices.invoices :
          invoices.invoices[i].status = "Pending Review"

C3_Witness ==
    /\ Len(db.rows) > 0
    /\ invoices.currentInvoice # NULL
    /\ lastAction.name = "createInvoice.fulfilled"

OcrResultWriters == {"ocr/processInvoiceImage/fulfilled", "ocr/clearOCRResult"}

\* C4: state.ocr.result changes only in a step that dispatches
\* processInvoiceImage.fulfilled or clearOCRResult; every other step (pending
\* alone, rejected, clearError, the invoice actions, handleSaveInvoice) leaves
\* it as it is.
C4_ResultImmutable ==
    [][ocr'.result # ocr.result =>
          lastAction'.dispatched \cap OcrResultWriters # {}]_vars

C4_Witness ==
    /\ ocr.result # NULL
    /\ lastAction.name = "handleSaveInvoice"
    /\ CreateRequests # {}

ExtractionKeys == {"raw_text", "extracted_fields"}

\* C5: a save on the detail page issues updateInvoice requests only, their
\* payload holds neither raw_text nor extracted_fields, no OCR request is
\* sent, and the update leaves the record's raw_text and extracted_fields
\* as the extraction produced them.
C5_EditKeepsExtraction ==
    [][/\ lastAction'.name = "handleSave" =>
            /\ \A r \in net' \ net :
                  r.kind = "update" /\ DOMAIN r.body \cap ExtractionKeys = {}
            /\ lastAction'.dispatched \subseteq {"invoices/updateInvoice/pending"}
       /\ lastAction'.name = "updateInvoice.fulfilled" =>
            \A i \in DOMAIN db.rows :
                /\ db'.rows[i].raw_text = db.rows[i].raw_text
                /\ db'.rows[i].extracted_fields = db.rows[i].extracted_fields]_vars

C5_Witness ==
    /\ lastAction.name = "updateInvoice.fulfilled"
    /\ \E i \in DOMAIN db.rows :
          /\ db.rows[i].status # "Pending Review"
          /\ db.rows[i].extracted_fields = BaseFields

\* C6: the extraction pipeline passes through Start, HeaderResolved,
\* ItemsResolved, TotalsResolved, Merged, Done in that order, one state at a
\* time, reaches Done for every input, the empty text included, and in Done
\* an invoice has been produced.
C6_PipelineTerminates ==
    /\ [][engine'.state # engine.state =>
            \/ engine.state = "Idle" /\ engine'.state = EngineStates[1]
            \/ \E i \in 1..(Len(EngineStates) - 1) :
                  /\ engine.state = EngineStates[i]
                  /\ engine'.state = EngineStates[i + 1]]_vars
    /\ [](engine.state = "Done" => engine.result # NULL)
    /\ (engine.state = "Start") ~> (engine.state = "Done")

C6_Witness ==
    /\ engine.state = "Done"
    /\ engine.raw = <<>>
    /\ Val(engine.result).vendor = NULL
    /\ Val(engine.result).flags =
          {"AmbiguousVendor", "NoLineItemsDetected", "MissingTotal"}

TotalsFields == {"subtotal", "tax", "discount", "total"}

RecognizedTotals == [f \in TotalsFields |-> Recognized(engine.lines, f)]

\* C7: when exactly three of subtotal, tax, discount, total were recognized,
\* the reconciler's output keeps those three, has a value for the fourth,
\* and satisfies total = subtotal + tax - discount within the tolerance.
C7_ReconciliationClosure ==
    (engine.totals # NULL
     /\ Cardinality({f \in TotalsFields : RecognizedTotals[f] # NULL}) = 3) =>
        LET out == Val(engine.totals) IN
        /\ \A f \in TotalsFields :
              /\ out[f] # NULL
              /\ RecognizedTotals[f] # NULL => out[f] = RecognizedTotals[f]
        /\ WithinTolerance(Val(out.subtotal) + Val(out.tax) - Val(out.discount),
                           Val(out.total))

C7_Witness ==
    /\ engine.totals # NULL
    /\ RecognizedTotals =
          [subtotal |-> Some(2000), tax |-> Some(200),
           discount |-> Some(100), total |-> NULL]
    /\ Val(engine.totals).total = Some(2100)

\* C8: for a document with subtotal 20.00 and tax 2.00 recognized and neither
\* a discount nor a total line, the reconciler's output has total 22.00 and
\* the MissingTotal flag.
C8_MissingTotalDerivation ==
    (engine.totals # NULL
     /\ RecognizedTotals =
          [subtotal |-> Some(2000), tax |-> Some(200),
           discount |-> NULL, total |-> NULL]) =>
        /\ Val(engine.totals).total = Some(2200)
        /\ "MissingTotal" \in Val(engine.totals).flags

\* C9: every row handleSaveInvoice puts into the record it sends satisfies
\* abs(amount - qty * rate) <= max(0.01, 0.01 * amount), or carries an
\* explicit mismatch flag.
C9_LineItemConsistency ==
    \A r \in CreateRequests :
        r.body.line_items # NULL =>
            \A i \in DOMAIN Val(r.body.line_items) :
                LET row == Val(r.body.line_items)[i] IN
                \/ WithinTolerance(row.qty * row.rate, row.amount)
                \/ "mismatch" \in DOMAIN row

VendorFields == {"vendor", "vendor_address", "vendor_email", "vendor_phone"}

Neither(block) ==
    {i \in DOMAIN block : ~MatchesEmail(block[i]) /\ ~MatchesPhone(block[i])}

\* the lines of the block at the indices, in order, as one address
RECURSIVE Concatenated(_, _)
Concatenated(block, indices) ==
    IF indices = {} THEN <<>>
    ELSE LET last == CHOOSE i \in indices : \A j \in indices : j <= i
             before == Concatenated(block, indices \ {last})
         IN IF before = <<>> THEN block[last]
            ELSE before \o AddressSeparator \o block[last]

\* C10: in the header block, line 1 is the vendor name unless it matches the
\* email or phone pattern; the later lines matching neither pattern form the
\* address, concatenated in order; the first line matching the email pattern
\* is the vendor email and the first matching the phone pattern the vendor
\* phone; "Acme Co", "12 Oak St", "acme@co.com", "555-1234" resolve to vendor
\* "Acme Co", address "12 Oak St", email "acme@co.com", phone "555-1234"; and
\* handleSaveInvoice sends the four fields as resolved.
C10_HeaderOrder ==
    /\ engine.header # NULL =>
          LET block == HeaderBlock(engine.lines)
              h == Val(engine.header)
          IN /\ (block # <<>> /\ 1 \in Neither(block)) =>
                    /\ h.vendor = Some(block[1])
                    /\ h.vendor_address =
                          IF Neither(block) = {1} THEN NULL
                          ELSE Some(Concatenated(block, Neither(block) \ {1}))
             /\ \A i \in DOMAIN block :
                    /\ (MatchesEmail(block[i])
                        /\ \A j \in 1..(i - 1) : ~MatchesEmail(block[j]))
                          => h.vendor_email = Some(block[i])
                    /\ (MatchesPhone(block[i])
                        /\ \A j \in 1..(i - 1) : ~MatchesPhone(block[j]))
                          => h.vendor_phone = Some(block[i])
             /\ block = ExampleHeader =>
                    /\ h.vendor = Some(AcmeCo)
                    /\ h.vendor_address = Some(OakSt)
                    /\ h.vendor_email = Some(AcmeMail)
                    /\ h.vendor_phone = Some(AcmePhone)
    /\ \A r \in CreateRequests :
          \A f \in VendorFields : r.body[f] = r.body.extracted_fields[f]

C10_Witness ==
    /\ engine.header # NULL
    /\ HeaderBlock(engine.lines) = ExampleHeader
    /\ \E r \in CreateRequests :
          /\ r.body.vendor = Some(AcmeCo)
          /\ r.body.vendor_address = Some(OakSt)
          /\ r.body.vendor_email = Some(AcmeMail)
          /\ r.body.vendor_phone = Some(AcmePhone)

\* C11: flags are advisory.  A document without item rows yields an empty
\* item list and the NoLineItemsDetected flag (and only such a document is
\* flagged so), the flag is not an error of the upload, and whatever the
\* flags of the delivered result, the upload page still lets the user save
\* it: the save is enabled and sends the record's creation.
C11_FlagsAdvisory ==
    /\ engine.items # NULL =>
          /\ Val(engine.items).items = <<>>
                <=> "NoLineItemsDetected" \in Val(engine.items).flags
    /\ engine.result # NULL =>
          /\ Val(engine.result).items = Val(engine.items).items
          /\ Val(engine.items).flags \subseteq Val(engine.result).flags
    /\ (engine.state = "Done" /\ ocr.result # NULL) =>
          /\ ocr.error = NULL
          /\ Val(ocr.result).extracted_fields.items
                = EngineFields(Val(engine.result)).items
    /\ (/\ OnUploadPage /\ upload.showPreview /\ ocr.result # NULL
        /\ ~invoices.loading
        /\ clicks < MaxUserActions /\ Cardinality(net) < MaxInFlight)
          => ENABLED handleSaveInvoice
    /\ \A r \in CreateRequests :
          engine.result # NULL /\ Val(engine.result).items = <<>>
             => r.body.line_items = Some(<<>>)

\* a result flagged NoLineItemsDetected was saved and its record created
C11_Witness ==
    /\ engine.result # NULL
    /\ "NoLineItemsDetected" \in Val(engine.result).flags
    /\ Val(engine.result).items = <<>>
    /\ db.rows # <<>>
    /\ db.rows[1].line_items = Some(<<>>)
    /\ invoices.currentInvoice = Some(db.rows[1])

\* a file the upload validation lets through: MIME type "image/..." and at
\* most 10 MB
ValidUpload(f) ==
    /\ Len(f.type) >= 6
    /\ <<f.type[1], f.type[2], f.type[3], f.type[4], f.type[5], f.type[6]>>
          = <<"i", "m", "a", "g", "e", "/">>
    /\ f.size <= 10 * 1024 * 1024

C20_PdfAccepted ==
    [][\A f \in Files :
          (/\ f.type = <<"a", "p", "p", "l", "i", "c", "a", "t", "i", "o", "n",
                         "/", "p", "d", "f">>
           /\ f.size <= 10 * 1024 * 1024
           /\ handleFileSelect(f))
             => /\ "ocr" \in lastAction'.sent
                /\ \E r \in net' : r.kind = "ocr" /\ r.body = f
      ]_vars

\* the first render of a page, by the page
MountOf(page) ==
    CASE page = "home" -> "Home.mount"
      [] page = "upload" -> "UploadInvoicePage.mount"
      [] page = "invoices" -> "InvoicesListPage.mount"
      [] page = "detail" -> "InvoiceDetailPage.mount"
      [] page = "login" -> "LoginForm.mount"
      [] page = "signup" -> "SignupForm.mount"
      [] OTHER -> "none"

ProtectedPages == {"home", "upload", "invoices", "detail"}

PublicPages == {"login", "signup"}

C13_PublicRedirect ==
    [][/\ (/\ storage.access_token # <<>> /\ auth.isAuthenticated
           /\ route.page \in PublicPages /\ ~route.mounted
           /\ lastAction'.name = MountOf(route.page)
           /\ clicks' = clicks)
             => /\ route'.page = "home"
                /\ ~route'.mounted
       /\ (/\ route'.mounted /\ route'.page \in PublicPages
           /\ Rendered(guard', auth', FALSE) = "children")
             => ~(guard'.hasToken /\ auth'.isAuthenticated)
      ]_vars

\* a logged-in user opened /login or /signup and was sent to the dashboard
C13_Witness ==
    /\ lastAction.name \in {MountOf(page) : page \in PublicPages}
    /\ storage.access_token # <<>> /\ auth.isAuthenticated
    /\ route.page = "home" /\ ~route.mounted

\* C14: once logoutAsync settles, whether the logout request was answered
\* or failed, localStorage holds neither access_token nor refresh_token and
\* the store's auth state has user, token and refreshToken null and
\* isAuthenticated false.
C14_LogoutClears ==
    [][(\E r \in net : r.kind = "logout" /\ \E ok \in BOOLEAN : LogoutSettled(r, ok))
          => /\ storage'.access_token = <<>>
             /\ storage'.refresh_token = <<>>
             /\ auth'.user = <<>>
             /\ auth'.token = <<>>
             /\ auth'.refreshToken = <<>>
             /\ auth'.isAuthenticated = FALSE
      ]_vars

\* a logout settled although its request was lost, in a session that was
\* logged in
C14_Witness ==
    /\ lastAction.name = "logout.fulfilled"
    /\ faults = 1
    /\ storage = [access_token |-> <<>>, refresh_token |-> <<>>]
    /\ auth.user = <<>> /\ ~auth.isAuthenticated
    /\ invoices.invoices # <<>>

\* the user whose token the browser holds
LoggedInAs(email) ==
    /\ storage.access_token # <<>>
    /\ UserOfToken(storage.access_token) = Some(email)
    /\ auth.isAuthenticated

\* C15: user data isolation.  Once user A has logged out and user B has
\* logged in in the same browser, the invoice list, the current invoice and
\* the OCR result of the store never hold what was fetched while A was
\* logged in.
C15_UserIsolation ==
    LoggedInAs(UserB) =>
        /\ \A i \in DOMAIN invoices.invoices : invoices.invoices[i].user_id # UserA
        /\ invoices.currentInvoice # <<>> =>
               Val(invoices.currentInvoice).user_id # UserA
        /\ ocr.result = <<>>

\* C16: signupAsync is dispatched only when full name, email, password and
\* confirmation are all non-empty, the password equals its confirmation and
\* has at least 6 characters, and the terms are agreed to; otherwise an
\* error is shown, no request is sent and the auth state is unchanged.
C16_SignupValidation ==
    [][/\ \A fullName \in NameInputs, email \in SignupEmailInputs,
            password \in SignupPasswordInputs,
            confirmPassword \in SignupPasswordInputs, agreeToTerms \in BOOLEAN :
             handleCreateAccount(fullName, email, password, confirmPassword,
                                 agreeToTerms) =>
               IF /\ Len(fullName) > 0 /\ email # "" /\ Len(password) > 0
                  /\ Len(confirmPassword) > 0
                  /\ password = confirmPassword
                  /\ Len(password) >= 6
                  /\ agreeToTerms
               THEN /\ "auth/signup/pending" \in lastAction'.dispatched
                    /\ \E r \in net' :
                          /\ r.kind = "signup"
                          /\ r.body = [full_name |-> fullName, email |-> email,
                                       password |-> password]
               ELSE /\ lastAction'.toast = "error"
                    /\ lastAction'.dispatched = {} /\ lastAction'.sent = {}
                    /\ UNCHANGED <<auth, net, storage, accounts>>
       /\ \A r \in net' \ net : r.kind = "signup" =>
             /\ lastAction'.name = "handleCreateAccount"
             /\ Len(r.body.full_name) > 0 /\ r.body.email # ""
             /\ Len(r.body.password) >= 6
       /\ (auth'.loading /\ ~auth.loading /\ lastAction'.name = "handleCreateAccount")
             => \E r \in net' : r.kind = "signup" /\ Len(r.body.password) >= 6
      ]_vars

\* the signup form was submitted and refused: nothing sent, the auth state
\* as the document's load left it
C16_Witness ==
    /\ lastAction.name = "handleCreateAccount" /\ lastAction.toast = "error"
    /\ route.page = "signup" /\ route.mounted
    /\ net = {}
    /\ auth = AuthInitialState(storage)

\* C17: signup does not log in.  The steps of signupAsync (the dispatch by
\* handleCreateAccount, its fulfilment, its rejection) leave the store's
\* token, refreshToken, user and isAuthenticated as they were and write
\* nothing to localStorage.
C17_SignupFrame ==
    [][lastAction'.name \in {"handleCreateAccount", "signup.fulfilled",
                             "signup.rejected"}
          => /\ auth'.token = auth.token
             /\ auth'.refreshToken = auth.refreshToken
             /\ auth'.user = auth.user
             /\ auth'.isAuthenticated = auth.isAuthenticated
             /\ storage' = storage
      ]_vars

\* an account was created: the visitor is still logged out, holds no
\* token, and was sent to /login
C17_Witness ==
    /\ lastAction.name = "signup.fulfilled"
    /\ AccountB \in accounts
    /\ ~auth.isAuthenticated /\ auth.token = <<>> /\ auth.user = <<>>
    /\ storage = [access_token |-> <<>>, refresh_token |-> <<>>]
    /\ route.page = "login"

C21_SavesLoadedInvoice ==
    [][(lastAction'.name = "handleSave" /\ "update" \in lastAction'.sent) =>
          /\ invoices.currentInvoice # <<>>
          /\ Val(invoices.currentInvoice).id = Val(route.id)
      ]_vars

\* C22: in every state, a page behind ProtectedRoute with requireAuth = true
\* shows its children only if the store's isAuthenticated is true, a user
\* profile is loaded and no auth request is loading.
C22_ProtectedContent ==
    /\ (ChildrenShown /\ RequireAuth(route.page)) =>
           /\ auth.isAuthenticated
           /\ auth.user # <<>>
           /\ ~auth.loading
    /\ \A f \in guard.frames : f.isAuthenticated /\ f.user /\ ~f.loading

\* C24: logout is final under interleaving.  In the step that follows the
\* settling of logoutAsync, unless that step is a loginAsync being fulfilled,
\* isAuthenticated is still false and user is still null, also when the step
\* is the answer to a fetchCurrentUser that was sent before the logout.
C24_LogoutFinal ==
    [][(lastAction.name = "logout.fulfilled" /\ lastAction'.name # "login.fulfilled")
          => /\ ~auth'.isAuthenticated
             /\ auth'.user = <<>>
      ]_vars

\* the token in localStorage is one the server does not accept
InvalidTokenStored ==
    storage.access_token # <<>> /\ ~TokenAccepted(storage.access_token)

\* no render of a protected page's guard returned its children
NoProtectedChildren ==
    /\ guard.frames = {}
    /\ ~(ChildrenShown /\ route.page \in ProtectedStarts)

\* a profile fetch failed on the protected page the browser loaded, which
\* is mounted, while a token is stored
RejectedOnLoadedPage ==
    /\ lastAction.name = "fetchCurrentUser.rejected"
    /\ storage.access_token # <<>>
    /\ route.page \in ProtectedStarts /\ route.mounted
    /\ route.inst = 0

\* the page the browser loaded is on screen, or it has just been left for
\* /login by a redirect
UntilRedirect ==
    \/ route.inst = 0
    \/ /\ route.inst = 1 /\ route.page = "login" /\ ~route.mounted
       /\ lastAction.name # "load"

====
